---- MODULE Spec2Model ----
(***************************************************************************)
(* Model of the message scheduler of the message-service repository        *)
(* (package service, type schedulerService): Start / Stop / IsRunning      *)
(* called by request-handling goroutines, and the background goroutine     *)
(* that Start launches (immediate SendMessages, then a select over the     *)
(* ticker channel and the stop channel).                                   *)
(*                                                                         *)
(* Every ticker created by Start gets the number of its running period     *)
(* (1, 2, ...); the goroutine launched by the same Start carries the same  *)
(* number.  The unbuffered stopChan is modelled by a rendezvous action.    *)
(* A caller is idle until its Lock() call succeeds, so a caller waiting    *)
(* for the lock is an idle caller whose entry action is not yet enabled.   *)
(*                                                                         *)
(* The delivery cycle messageSender.SendMessages is modelled call by call  *)
(* (fetch, dedup check, delivery, mark-sent, cache write, snapshot         *)
(* refresh) over the message store and the Redis cache, together with the  *)
(* two request handlers that share both with it: the manual single send    *)
(* and the cache clear.  Message ids are interchangeable.  Cache expiry    *)
(* (TTL) is not modelled.                                                  *)
(*                                                                         *)
(* Spec is the scheduler with all its callers over an empty message table. *)
(* SenderSpec is the background goroutine once the scheduler has been      *)
(* started, cycle after cycle, over every content of the table and the     *)
(* cache; RetrySpec is the same goroutine running for ever.  ClearSpec is  *)
(* the immediate cycle of that goroutine running concurrently with         *)
(* cache-clear requests, ManualSpec the same cycle running concurrently    *)
(* with manual send requests.  CountSpec is SenderSpec with the successful *)
(* deliveries counted and a mark-sent call that never fails.  DeliverSpec  *)
(* is a single call of SendMessage for every answer of the delivery        *)
(* endpoint, StoreSpec the store's UpdateMessageSent called on its own.    *)
(* LiveSpec is the scheduler with its callers under fairness, HandlerSpec  *)
(* the handlers StartScheduler and StopScheduler around it, both within    *)
(* the first interval of every running period.                             *)
(***************************************************************************)
EXTENDS Integers, Sequences, FiniteSets, TLC

\* ---- bounds ----
NumCallers == 2     \* request-handling goroutines calling the scheduler
MaxPeriods == 2     \* successful Start() calls (tickers ever created)
MaxCycles == 2      \* SendMessages calls made by one background goroutine
NumMsgs == 3        \* message ids
MaxRequests == 1    \* manual-send and cache-clear requests served
MaxStamp == 2       \* writes of sent_at told apart (more count as MaxStamp)
MaxStatusCode == 430  \* largest HTTP status the delivery endpoint answers
MaxDelivered == 2   \* successful deliveries of a message told apart

Callers == 1..NumCallers
Periods == 1..MaxPeriods
Msgs == 1..NumMsgs

\* ---- construction parameters (NewSchedulerService as called from main) ----
SenderIsNil == FALSE     \* main passes a non-nil MessageSender
StopChanIsNil == FALSE   \* the constructor always makes the channel
BatchSize == 2           \* main passes batch size 2

\* ---- HTTP status codes named by SendMessage ----
StatusOK == 200
StatusAccepted == 202
StatusTooManyRequests == 429

\* ---- HTTP status codes the handlers answer with (besides the above) ----
StatusInternalServerError == 500

VARIABLES
    isRunning,      \* s.isRunning
    runningMutex,   \* s.runningMutex: 0 when free, else the caller holding it
    ticker,         \* s.ticker: 0 for nil, else the number of the ticker
    timerActive,    \* tickers created and not yet stopped by ticker.Stop()
    tickPending,    \* TRUE when the channel s.ticker.C holds a tick (capacity 1)
    unitPc,         \* position of the background goroutine of each period
    callerPc,       \* position of each caller inside Start/Stop/IsRunning
    lastReturn,     \* the return statement executed last: operation, value, line
    \* ---- history (observation only, never read by the program) ----
    cycleLog,       \* per goroutine: kinds of the SendMessages calls it made
    tickFired,      \* TRUE when the ticker s.ticker has delivered a tick
    stopSignals,    \* number of values sent on stopChan
    calledEarly,    \* the Stop() in progress took the lock while the scheduler
                    \* was running and before the period's first tick fired
    earlyCall,      \* periods stopped by such a Stop()
    earlyReturn,    \* periods whose Stop() also returned before their first tick
    cacheFailed,    \* ids marked sent by a cycle whose cache write was
                    \* skipped (no client) or failed
    \* ---- the delivery cycle, the store, the cache, the handlers ----
    cyc,            \* per goroutine: its SendMessages call in progress
    stored,         \* ids of the rows of table messages
    sent,           \* ids of the rows with sent = true
    sentAt,         \* per id: 0 when sent_at is NULL, else writes of sent_at
    redisClient,    \* "nil" when no cache client is configured, else "set"
    cacheMsg,       \* ids whose key message:<id> exists in the cache
    snapshot,       \* the key messages:sent: present or not, and the ids in it
    req,            \* the handler request in progress
    reqCount,       \* handler requests started
    delivery,       \* a call of SendMessage on its own: the answer of the
                    \* outbound call and the error the method returns
    markCall,       \* a call of UpdateMessageSent on its own: the id it was
                    \* given and the error it returned
    \* ---- the handlers StartScheduler and StopScheduler ----
    schedulerState, \* the key scheduler:state: "absent" or its value
    hreq,           \* per caller: what its handler does after Start() or
                    \* Stop() has returned
    \* ---- history (observation only, never read by the program) ----
    delivered       \* per id: calls of SendMessage made by cycles that
                    \* returned nil (more than MaxDelivered count as that)

\* the scheduler and its callers
schedAll == <<isRunning, runningMutex, ticker, timerActive, tickPending,
              unitPc, callerPc, lastReturn, cycleLog, tickFired, stopSignals,
              calledEarly, earlyCall, earlyReturn>>

\* the store, the cache and the handlers
dataVars == <<stored, sent, sentAt, redisClient, cacheMsg, snapshot, req,
              reqCount, cacheFailed>>

senderVars == <<cyc, dataVars>>

\* calls made on their own
callVars == <<delivery, markCall>>

\* the scheduler handlers and the key they write
handlerVars == <<schedulerState, hreq>>

vars == <<schedAll, senderVars, callVars, handlerVars, delivered>>

\* everything except the lock, the callers and what they return
schedVars == <<isRunning, ticker, timerActive, tickPending, unitPc, cycleLog,
               tickFired, stopSignals, earlyCall, earlyReturn>>

UnitPcs == {"none", "spawned", "first_cycle", "select", "tick_cycle",
            "stopping", "done"}
CallerPcs == {"idle", "start_body", "stop_body", "stop_send", "stop_sent",
              "isr_body"}
Returns ==
    {[op |-> "none", val |-> "none", line |-> 0],
     [op |-> "Start", val |-> "err", line |-> 45],
     [op |-> "Start", val |-> "err", line |-> 51],
     [op |-> "Start", val |-> "err", line |-> 55],
     [op |-> "Start", val |-> "nil", line |-> 82],
     [op |-> "Stop", val |-> "nil", line |-> 90],
     [op |-> "Stop", val |-> "nil", line |-> 95],
     [op |-> "IsRunning", val |-> "true", line |-> 101],
     [op |-> "IsRunning", val |-> "false", line |-> 101]}
Return(o, v, l) == [op |-> o, val |-> v, line |-> l]

\* positions inside SendMessages, and the state of a call (idle: no call)
CyclePcs == {"idle", "fetch", "check", "send", "update", "cache",
             "refresh_get", "refresh_set", "return"}

\* outcomes of a step of SendMessages
StepOutcomes == {"none", "fetched", "check_err", "cached",
                 "uncached", "send_err", "delivered", "mark_err", "marked",
                 "cache_skipped", "cache_err", "cache_written",
                 "refresh_get_err", "refresh_read", "refresh_set_err",
                 "refreshed"}

IdleCycle ==
    [pc |-> "idle", batch |-> <<>>, i |-> 0, messagesSent |-> FALSE,
     fetchErr |-> FALSE, read |-> {},
     \* history of the call: the cache keys at its entry, the outcome of
     \* its last step, whether every step so far succeeded on a message
     \* that was not cached, and the calls it made
     cache0 |-> {}, last |-> "none", clean |-> TRUE,
     checks |-> 0, sends |-> 0, marks |-> 0, written |-> 0, refreshes |-> 0]

\* positions of a handler request: manual send (m_) and cache clear (c_)
ReqPcs == {"idle", "m_send", "m_update", "m_get", "m_set", "m_del", "c_del",
           "reply"}
\* sendErr is what SendMessage returned to the handler, marks the calls of
\* UpdateMessageSent the request made, reply the status of its answer
IdleReq == [pc |-> "idle", id |-> 0, read |-> {}, keys |-> {},
            sendErr |-> "none", marks |-> 0, reply |-> 0]

\* what client.Do(req) and the decoding of the body can yield: no response
\* (a transport failure), or a response with a status code and a body that
\* decodes into MessageResponse or does not
StatusCodes == (StatusOK - 1)..MaxStatusCode
NoResponse == [transport |-> "failed", status |-> 0, decodable |-> FALSE]
Responses ==
    {NoResponse} \cup
    [transport : {"ok"}, status : StatusCodes, decodable : BOOLEAN]
Response(st, dec) == [transport |-> "ok", status |-> st, decodable |-> dec]

\* one answer of the outbound call for every return statement of SendMessage
\* after the request is built
DeliveryOutcomes ==
    {NoResponse,
     Response(StatusTooManyRequests, TRUE),
     Response(StatusOK + 1, TRUE),
     Response(StatusOK, FALSE),
     Response(StatusOK, TRUE),
     Response(StatusAccepted, TRUE)}

\* SendMessage with the rate-limit test after the test of the accepted codes
SendMessageNoRateLimit(outcome) ==
    IF outcome.transport = "failed" THEN "error"
    ELSE IF outcome.status # StatusAccepted /\ outcome.status # StatusOK
    THEN "error"
    ELSE IF outcome.status = StatusTooManyRequests THEN "rate_limited"
    ELSE IF ~outcome.decodable THEN "error"
    ELSE "nil"

\* what SendMessage returns for an answer of the outbound call: client.Do
\* fails -> error; 429 -> rate limited; neither 202 nor 200 -> error; the body
\* does not decode -> error; else nil
SendMessage(outcome) ==
    IF outcome.transport = "failed" THEN "error"
    ELSE IF outcome.status = StatusTooManyRequests THEN "rate_limited"
    ELSE IF outcome.status # StatusAccepted /\ outcome.status # StatusOK
    THEN "error"
    ELSE IF ~outcome.decodable THEN "error"
    ELSE "nil"

\* no call of SendMessage on its own
NoDelivery == [resp |-> NoResponse, err |-> "none"]

\* no call of UpdateMessageSent on its own
NoMarkCall == [id |-> 0, err |-> "none"]


InCycle(u) == unitPc[u] \in {"first_cycle", "tick_cycle"}
CycleInFlight == \E u \in Periods : InCycle(u)
\* goroutines that exist and have not yet observed a stop signal
LiveUnits == {u \in Periods : unitPc[u] \in {"spawned", "first_cycle", "select", "tick_cycle"}}
\* goroutines that exist and have not returned
ExistingUnits == {u \in Periods : unitPc[u] \notin {"none", "done"}}

TypeOK ==
    /\ isRunning \in BOOLEAN
    /\ runningMutex \in 0..NumCallers
    /\ ticker \in 0..MaxPeriods
    /\ timerActive \subseteq Periods
    /\ tickPending \in BOOLEAN
    /\ tickFired \in BOOLEAN
    /\ unitPc \in [Periods -> UnitPcs]
    /\ \A u \in Periods : Len(cycleLog[u]) <= MaxCycles
    /\ callerPc \in [Callers -> CallerPcs]
    /\ \A c \in Callers : callerPc[c] # "idle" <=> runningMutex = c
    /\ lastReturn \in Returns
    /\ stopSignals \in 0..MaxPeriods
    /\ calledEarly \in BOOLEAN
    /\ earlyCall \subseteq Periods
    /\ earlyReturn \subseteq earlyCall
    /\ cacheFailed \subseteq Msgs
    /\ \A u \in Periods :
          /\ cyc[u].pc \in CyclePcs
          /\ cyc[u].last \in StepOutcomes
          /\ cyc[u].pc # "idle" <=> InCycle(u)
          /\ cyc[u].pc # "fetch" => Len(cyc[u].batch) <= BatchSize
          /\ cyc[u].i \in 0..Len(cyc[u].batch)
          /\ cyc[u].pc \in {"check", "send", "update", "cache"} => cyc[u].i >= 1
    /\ stored \subseteq Msgs
    /\ sent \subseteq stored
    /\ sentAt \in [Msgs -> 0..MaxStamp]
    /\ redisClient \in {"nil", "set"}
    /\ cacheMsg \subseteq Msgs
    /\ redisClient = "nil" => cacheMsg = {} /\ ~snapshot.present
    /\ redisClient = "nil" => schedulerState = "absent"
    /\ snapshot.present \in BOOLEAN /\ snapshot.ids \subseteq Msgs
    /\ req.pc \in ReqPcs
    /\ req.id \in 0..NumMsgs
    /\ req.sendErr \in {"none", "nil", "rate_limited", "error"}
    /\ req.reply \in {0, StatusOK, StatusAccepted, StatusInternalServerError}
    /\ req.pc = "reply" <=> req.reply # 0
    /\ reqCount \in 0..MaxRequests
    /\ delivery.resp \in Responses
    /\ delivery.err \in {"none", "nil", "rate_limited", "error"}
    /\ markCall.id \in 0..NumMsgs
    /\ markCall.err \in {"none", "nil", "err"}
    /\ delivered \in [Msgs -> 0..MaxDelivered]
    /\ schedulerState \in {"absent", "running"}
    /\ hreq \in [Callers -> {"none", "set", "del"}]
    /\ \A c \in Callers : hreq[c] # "none" => callerPc[c] = "idle"

\* NewSchedulerService: not running, no ticker, an empty unbuffered stopChan
SchedulerInit ==
    /\ isRunning = FALSE
    /\ runningMutex = 0
    /\ ticker = 0
    /\ timerActive = {}
    /\ tickPending = FALSE
    /\ tickFired = FALSE
    /\ unitPc = [u \in Periods |-> "none"]
    /\ cycleLog = [u \in Periods |-> <<>>]
    /\ callerPc = [c \in Callers |-> "idle"]
    /\ lastReturn = Return("none", "none", 0)
    /\ stopSignals = 0
    /\ calledEarly = FALSE
    /\ earlyCall = {}
    /\ earlyReturn = {}
    /\ cyc = [u \in Periods |-> IdleCycle]
    /\ req = IdleReq
    /\ reqCount = 0
    /\ cacheFailed = {}
    /\ schedulerState = "absent"
    /\ hreq = [c \in Callers |-> "none"]
    /\ delivered = [m \in Msgs |-> 0]

\* main: the service starts with a reachable Redis; here over an empty
\* table messages and an empty cache
Init ==
    /\ SchedulerInit
    /\ delivery = NoDelivery
    /\ markCall = NoMarkCall
    /\ stored = {}
    /\ sent = {}
    /\ sentAt = [m \in Msgs |-> 0]
    /\ redisClient = "set"
    /\ cacheMsg = {}
    /\ snapshot = [present |-> FALSE, ids |-> {}]

\* ------------------------------------------------------------------------
\* schedulerService.Start
\* ------------------------------------------------------------------------

\* a caller enters Start: s.runningMutex.Lock() succeeds when the lock is free
StartLock(c) ==
    /\ callerPc[c] = "idle"
    /\ runningMutex = 0
    /\ isRunning \/ ticker < MaxPeriods
    /\ runningMutex' = c
    /\ callerPc' = [callerPc EXCEPT ![c] = "start_body"]
    /\ UNCHANGED <<lastReturn, calledEarly, schedVars>>
    /\ UNCHANGED senderVars
    /\ UNCHANGED callVars
    /\ UNCHANGED handlerVars
    /\ UNCHANGED delivered

\* s.ticker = time.NewTicker(s.interval); s.isRunning = true; go func(){...}()
\* the new goroutine starts at position first
Launch(first) ==
    /\ ticker' = ticker + 1
    /\ timerActive' = timerActive \cup {ticker + 1}
    /\ tickPending' = FALSE
    /\ tickFired' = FALSE
    /\ isRunning' = TRUE
    /\ unitPc' = [unitPc EXCEPT ![ticker + 1] = first]

\* Start that answers nil when the scheduler is already running
StartAlreadyRunningNil(c) ==
    /\ callerPc[c] = "start_body"
    /\ runningMutex = c
    /\ IF isRunning
       THEN /\ lastReturn' = Return("Start", "nil", 45)
            /\ UNCHANGED <<isRunning, ticker, timerActive, tickPending,
                           tickFired, unitPc>>
       ELSE /\ Launch("spawned")
            /\ lastReturn' = Return("Start", "nil", 82)
    /\ callerPc' = [callerPc EXCEPT ![c] = "idle"]
    /\ runningMutex' = 0
    /\ UNCHANGED <<cycleLog, stopSignals, calledEarly, earlyCall, earlyReturn>>
    /\ UNCHANGED senderVars
    /\ UNCHANGED callVars
    /\ UNCHANGED handlerVars
    /\ UNCHANGED delivered

\* Start that does not look at s.isRunning
StartNoRunningCheck(c) ==
    /\ callerPc[c] = "start_body"
    /\ runningMutex = c
    /\ IF ticker >= MaxPeriods
       THEN /\ lastReturn' = Return("Start", "err", 45)
            /\ UNCHANGED <<isRunning, ticker, timerActive, tickPending,
                           tickFired, unitPc>>
       ELSE /\ Launch("spawned")
            /\ lastReturn' = Return("Start", "nil", 82)
    /\ callerPc' = [callerPc EXCEPT ![c] = "idle"]
    /\ runningMutex' = 0
    /\ UNCHANGED <<cycleLog, stopSignals, calledEarly, earlyCall, earlyReturn>>
    /\ UNCHANGED senderVars
    /\ UNCHANGED callVars
    /\ UNCHANGED handlerVars
    /\ UNCHANGED delivered

\* Start whose goroutine goes straight to the select loop
StartNoImmediateCycle(c) ==
    /\ callerPc[c] = "start_body"
    /\ runningMutex = c
    /\ IF isRunning
       THEN /\ lastReturn' = Return("Start", "err", 45)
            /\ UNCHANGED <<isRunning, ticker, timerActive, tickPending,
                           tickFired, unitPc>>
       ELSE /\ Launch("select")
            /\ lastReturn' = Return("Start", "nil", 82)
    /\ callerPc' = [callerPc EXCEPT ![c] = "idle"]
    /\ runningMutex' = 0
    /\ UNCHANGED <<cycleLog, stopSignals, calledEarly, earlyCall, earlyReturn>>
    /\ UNCHANGED senderVars
    /\ UNCHANGED callVars
    /\ UNCHANGED handlerVars
    /\ UNCHANGED delivered

\* Start that sets the flag and creates the ticker but launches no goroutine
StartNoGoroutine(c) ==
    /\ callerPc[c] = "start_body"
    /\ runningMutex = c
    /\ IF isRunning
       THEN /\ lastReturn' = Return("Start", "err", 45)
            /\ UNCHANGED <<isRunning, ticker, timerActive, tickPending,
                           tickFired, unitPc>>
       ELSE /\ Launch("none")
            /\ lastReturn' = Return("Start", "nil", 82)
    /\ callerPc' = [callerPc EXCEPT ![c] = "idle"]
    /\ runningMutex' = 0
    /\ UNCHANGED <<cycleLog, stopSignals, calledEarly, earlyCall, earlyReturn>>
    /\ UNCHANGED senderVars
    /\ UNCHANGED callVars
    /\ UNCHANGED handlerVars
    /\ UNCHANGED delivered

\* if s.isRunning -> error; nil sender -> error; nil stopChan -> error;
\* otherwise create the ticker, set the flag, launch the goroutine and
\* return nil.  The deferred Unlock runs on every return.
StartStep(c) ==
    /\ callerPc[c] = "start_body"
    /\ runningMutex = c
    /\ IF isRunning \/ SenderIsNil \/ StopChanIsNil
       THEN /\ lastReturn' = Return("Start", "err",
                                    IF isRunning THEN 45
                                    ELSE IF SenderIsNil THEN 51 ELSE 55)
            /\ UNCHANGED <<isRunning, ticker, timerActive, tickPending,
                           tickFired, unitPc>>
       ELSE /\ Launch("spawned")
            /\ lastReturn' = Return("Start", "nil", 82)
    /\ callerPc' = [callerPc EXCEPT ![c] = "idle"]
    /\ runningMutex' = 0
    /\ UNCHANGED <<cycleLog, stopSignals, calledEarly, earlyCall, earlyReturn>>
    /\ UNCHANGED senderVars
    /\ UNCHANGED callVars
    /\ UNCHANGED delivered

\* Start() called on its own
Start(c) ==
    /\ StartStep(c)
    /\ UNCHANGED handlerVars

\* ------------------------------------------------------------------------
\* schedulerService.Stop
\* ------------------------------------------------------------------------

\* a caller enters Stop: s.runningMutex.Lock()
StopLock(c) ==
    /\ callerPc[c] = "idle"
    /\ runningMutex = 0
    /\ runningMutex' = c
    /\ callerPc' = [callerPc EXCEPT ![c] = "stop_body"]
    /\ calledEarly' = (isRunning /\ ~tickFired)
    /\ UNCHANGED <<lastReturn, schedVars>>
    /\ UNCHANGED senderVars
    /\ UNCHANGED callVars
    /\ UNCHANGED handlerVars
    /\ UNCHANGED delivered

\* Stop that does not look at s.isRunning
StopNoRunningCheck(c) ==
    /\ callerPc[c] = "stop_body"
    /\ runningMutex = c
    /\ callerPc' = [callerPc EXCEPT ![c] = "stop_send"]
    /\ UNCHANGED <<runningMutex, lastReturn, calledEarly, schedVars>>
    /\ UNCHANGED senderVars
    /\ UNCHANGED callVars
    /\ UNCHANGED handlerVars
    /\ UNCHANGED delivered

\* if !s.isRunning { return nil } (deferred Unlock); otherwise go on to the send
StopCheckStep(c) ==
    /\ callerPc[c] = "stop_body"
    /\ runningMutex = c
    /\ IF ~isRunning
       THEN /\ lastReturn' = Return("Stop", "nil", 90)
            /\ callerPc' = [callerPc EXCEPT ![c] = "idle"]
            /\ runningMutex' = 0
            /\ calledEarly' = FALSE
       ELSE /\ callerPc' = [callerPc EXCEPT ![c] = "stop_send"]
            /\ UNCHANGED <<runningMutex, lastReturn, calledEarly>>
    /\ UNCHANGED schedVars
    /\ UNCHANGED senderVars
    /\ UNCHANGED callVars
    /\ UNCHANGED delivered

\* the entry of Stop() called on its own
StopCheck(c) ==
    /\ StopCheckStep(c)
    /\ UNCHANGED handlerVars

\* a send on a buffered stopChan: it completes while the goroutine is busy
StopSignalBuffered(c, u) ==
    /\ callerPc[c] = "stop_send"
    /\ u \in LiveUnits
    /\ callerPc' = [callerPc EXCEPT ![c] = "stop_sent"]
    /\ stopSignals' = stopSignals + 1
    /\ earlyCall' = IF calledEarly THEN earlyCall \cup {u} ELSE earlyCall
    /\ UNCHANGED <<isRunning, runningMutex, ticker, timerActive, tickPending,
                   unitPc, cycleLog, lastReturn, tickFired, calledEarly,
                   earlyReturn>>
    /\ UNCHANGED senderVars
    /\ UNCHANGED callVars
    /\ UNCHANGED handlerVars
    /\ UNCHANGED delivered

\* s.stopChan <- struct{}{} in Stop meets case <-s.stopChan in the select of
\* goroutine u: the channel is unbuffered, so the send completes only when a
\* goroutine waiting in the select receives it
StopSignal(c, u) ==
    /\ callerPc[c] = "stop_send"
    /\ unitPc[u] = "select"
    /\ callerPc' = [callerPc EXCEPT ![c] = "stop_sent"]
    /\ unitPc' = [unitPc EXCEPT ![u] = "stopping"]
    /\ stopSignals' = stopSignals + 1
    /\ earlyCall' = IF calledEarly THEN earlyCall \cup {u} ELSE earlyCall
    /\ UNCHANGED <<isRunning, runningMutex, ticker, timerActive, tickPending,
                   cycleLog, lastReturn, tickFired, calledEarly, earlyReturn>>
    /\ UNCHANGED senderVars
    /\ UNCHANGED callVars
    /\ UNCHANGED handlerVars
    /\ UNCHANGED delivered

\* a Stop that returns without clearing s.isRunning
StopFinishKeepsFlag(c) ==
    /\ callerPc[c] = "stop_sent"
    /\ runningMutex = c
    /\ lastReturn' = Return("Stop", "nil", 95)
    /\ callerPc' = [callerPc EXCEPT ![c] = "idle"]
    /\ runningMutex' = 0
    /\ earlyReturn' = IF calledEarly /\ ~tickFired
                      THEN earlyReturn \cup {ticker} ELSE earlyReturn
    /\ calledEarly' = FALSE
    /\ UNCHANGED <<isRunning, ticker, timerActive, tickPending, unitPc,
                   cycleLog, tickFired, stopSignals, earlyCall>>
    /\ UNCHANGED senderVars
    /\ UNCHANGED callVars
    /\ UNCHANGED handlerVars
    /\ UNCHANGED delivered

\* s.isRunning = false; return nil; deferred Unlock
StopFinishStep(c) ==
    /\ callerPc[c] = "stop_sent"
    /\ runningMutex = c
    /\ isRunning' = FALSE
    /\ lastReturn' = Return("Stop", "nil", 95)
    /\ callerPc' = [callerPc EXCEPT ![c] = "idle"]
    /\ runningMutex' = 0
    /\ earlyReturn' = IF calledEarly /\ ~tickFired
                      THEN earlyReturn \cup {ticker} ELSE earlyReturn
    /\ calledEarly' = FALSE
    /\ UNCHANGED <<ticker, timerActive, tickPending, unitPc, cycleLog,
                   tickFired, stopSignals, earlyCall>>
    /\ UNCHANGED senderVars
    /\ UNCHANGED callVars
    /\ UNCHANGED delivered

\* the end of Stop() called on its own
StopFinish(c) ==
    /\ StopFinishStep(c)
    /\ UNCHANGED handlerVars

\* ------------------------------------------------------------------------
\* schedulerService.IsRunning
\* ------------------------------------------------------------------------

\* a caller enters IsRunning: s.runningMutex.Lock()
IsRunningLock(c) ==
    /\ callerPc[c] = "idle"
    /\ runningMutex = 0
    /\ runningMutex' = c
    /\ callerPc' = [callerPc EXCEPT ![c] = "isr_body"]
    /\ UNCHANGED <<lastReturn, calledEarly, schedVars>>
    /\ UNCHANGED senderVars
    /\ UNCHANGED callVars
    /\ UNCHANGED handlerVars
    /\ UNCHANGED delivered

\* return s.isRunning; deferred Unlock
IsRunning(c) ==
    /\ callerPc[c] = "isr_body"
    /\ runningMutex = c
    /\ lastReturn' = Return("IsRunning", IF isRunning THEN "true" ELSE "false", 101)
    /\ callerPc' = [callerPc EXCEPT ![c] = "idle"]
    /\ runningMutex' = 0
    /\ UNCHANGED <<calledEarly, schedVars>>
    /\ UNCHANGED senderVars
    /\ UNCHANGED callVars
    /\ UNCHANGED handlerVars
    /\ UNCHANGED delivered

\* ------------------------------------------------------------------------
\* Message store (table messages) and dedup cache (Redis)
\* ------------------------------------------------------------------------

Min(a, b) == IF a < b THEN a ELSE b

\* sequences of k distinct elements of S
Perms(S, k) == {b \in [1..k -> S] : \A x, y \in 1..k : x # y => b[x] # b[y]}

\* the same query without its WHERE clause
GetUnsentMessagesAnyRow(limit) ==
    Perms(stored, Min(limit, Cardinality(stored)))

\* the same query without its LIMIT clause
GetUnsentMessagesNoLimit(limit) ==
    Perms(stored \ sent, Cardinality(stored \ sent))

\* SELECT ... FROM messages WHERE sent = false LIMIT limit: the possible
\* results of a query that succeeds.  There is no ORDER BY, so the store
\* chooses which rows and in which order.
GetUnsentMessages(limit) ==
    Perms(stored \ sent, Min(limit, Cardinality(stored \ sent)))

\* SELECT ... FROM messages WHERE sent = true
GetSentMessages == sent

\* a mark-sent that writes nothing and reports nothing
UpdateMessageSentNoPersist(m, ok) == UNCHANGED <<sent, sentAt>>

\* the same statement writing the flag only
UpdateMessageSentFlagOnly(m, ok) ==
    IF ok /\ m \in stored
    THEN sent' = sent \cup {m} /\ UNCHANGED sentAt
    ELSE UNCHANGED <<sent, sentAt>>

\* UPDATE messages SET sent = true, sent_at = now, ... WHERE id = m, one
\* statement.  ok is whether Exec returned no error; the method returns
\* that error only, also when no row has the id.
UpdateMessageSent(m, ok) ==
    IF ok /\ m \in stored
    THEN /\ sent' = sent \cup {m}
         /\ sentAt' = [sentAt EXCEPT ![m] = Min(@ + 1, MaxStamp)]
    ELSE UNCHANGED <<sent, sentAt>>

\* what UpdateMessageSent returns: the error of Exec, nothing else (the
\* number of rows the statement updated is not looked at)
UpdateMessageSentErr(m, ok) == IF ok THEN "nil" ELSE "err"

\* IsMessageCached: no client -> (false, nil); Exists fails -> (false, err);
\* otherwise whether the key message:<m> exists
IsMessageCached(m, ok) ==
    IF redisClient = "nil" THEN [cached |-> FALSE, err |-> FALSE]
    ELSE IF ~ok THEN [cached |-> FALSE, err |-> TRUE]
    ELSE [cached |-> m \in cacheMsg, err |-> FALSE]

\* ------------------------------------------------------------------------
\* messageSender.SendMessages, as called by the goroutine of period u
\* ------------------------------------------------------------------------

\* entry of SendMessages; fetchErr tells whether the previous fetch of the
\* goroutine failed, until this call has fetched
NewCycle(u) == [IdleCycle EXCEPT !.pc = "fetch", !.cache0 = cacheMsg,
                                 !.fetchErr = cyc[u].fetchErr]

\* a step of the loop body failed or skipped the message
Failed(c, what) == [c EXCEPT !.last = what, !.clean = FALSE]

\* the message the loop is at
Current(u) == cyc[u].batch[cyc[u].i]

\* after the loop without the snapshot refresh
AfterLoopNoRefresh(c) == [c EXCEPT !.pc = "return"]

\* after the loop with a refresh whenever a cache client is configured
AfterLoopAlwaysRefreshes(c) ==
    [c EXCEPT !.pc = IF redisClient = "set" THEN "refresh_get" ELSE "return"]

\* after the loop: the snapshot is refreshed if messagesSent and a client
AfterLoop(c) ==
    [c EXCEPT !.pc = IF c.messagesSent /\ redisClient = "set"
                     THEN "refresh_get" ELSE "return"]

\* continue / end of the loop body
NextMessage(c) ==
    IF c.i < Len(c.batch)
    THEN [c EXCEPT !.i = @ + 1, !.pc = "check"]
    ELSE AfterLoop(c)

\* a fetch whose failure path rewrites the snapshot before it returns
SendMessagesFetchErrorRefreshes(u, ok) ==
    /\ InCycle(u)
    /\ cyc[u].pc = "fetch"
    /\ IF ~ok
       THEN /\ cyc' = [cyc EXCEPT ![u] = [IdleCycle EXCEPT !.fetchErr = TRUE]]
            /\ unitPc' = [unitPc EXCEPT ![u] = "select"]
            /\ snapshot' = [present |-> TRUE, ids |-> GetSentMessages]
       ELSE /\ UNCHANGED snapshot
            /\ \E b \in GetUnsentMessages(BatchSize) :
                 IF Len(b) = 0
                 THEN /\ cyc' = [cyc EXCEPT ![u] = IdleCycle]
                      /\ unitPc' = [unitPc EXCEPT ![u] = "select"]
                 ELSE /\ cyc' = [cyc EXCEPT ![u] =
                             [@ EXCEPT !.pc = "check", !.batch = b, !.i = 1,
                                       !.last = "fetched", !.fetchErr = FALSE]]
                      /\ UNCHANGED unitPc
    /\ UNCHANGED <<isRunning, runningMutex, ticker, timerActive, tickPending,
                   cycleLog, callerPc, lastReturn, tickFired, stopSignals,
                   calledEarly, earlyCall, earlyReturn, stored, sent, sentAt,
                   redisClient, cacheMsg, req, reqCount, cacheFailed>>
    /\ UNCHANGED callVars
    /\ UNCHANGED handlerVars
    /\ UNCHANGED delivered

\* a goroutine that gives up when the fetch fails: it stops its ticker
\* and returns
SendMessagesFetchErrorStops(u, ok) ==
    /\ InCycle(u)
    /\ cyc[u].pc = "fetch"
    /\ IF ~ok
       THEN /\ cyc' = [cyc EXCEPT ![u] = [IdleCycle EXCEPT !.fetchErr = TRUE]]
            /\ unitPc' = [unitPc EXCEPT ![u] = "done"]
            /\ timerActive' = timerActive \ {u}
       ELSE /\ UNCHANGED timerActive
            /\ \E b \in GetUnsentMessages(BatchSize) :
                 IF Len(b) = 0
                 THEN /\ cyc' = [cyc EXCEPT ![u] = IdleCycle]
                      /\ unitPc' = [unitPc EXCEPT ![u] = "select"]
                 ELSE /\ cyc' = [cyc EXCEPT ![u] =
                             [@ EXCEPT !.pc = "check", !.batch = b, !.i = 1,
                                       !.last = "fetched", !.fetchErr = FALSE]]
                      /\ UNCHANGED unitPc
    /\ UNCHANGED <<isRunning, runningMutex, ticker, tickPending,
                   cycleLog, callerPc, lastReturn, tickFired, stopSignals,
                   calledEarly, earlyCall, earlyReturn, dataVars>>
    /\ UNCHANGED callVars
    /\ UNCHANGED handlerVars
    /\ UNCHANGED delivered

\* messages, err := GetUnsentMessages(ctx, count).  An error is returned to
\* the goroutine, which logs it and enters the select; an empty result
\* returns nil the same way; otherwise the loop starts at the first message
SendMessagesFetch(u, ok) ==
    /\ InCycle(u)
    /\ cyc[u].pc = "fetch"
    /\ IF ~ok
       THEN /\ cyc' = [cyc EXCEPT ![u] = [IdleCycle EXCEPT !.fetchErr = TRUE]]
            /\ unitPc' = [unitPc EXCEPT ![u] = "select"]
       ELSE \E b \in GetUnsentMessages(BatchSize) :
               IF Len(b) = 0
               THEN /\ cyc' = [cyc EXCEPT ![u] = IdleCycle]
                    /\ unitPc' = [unitPc EXCEPT ![u] = "select"]
               ELSE /\ cyc' = [cyc EXCEPT ![u] =
                           [@ EXCEPT !.pc = "check", !.batch = b, !.i = 1,
                                     !.last = "fetched", !.fetchErr = FALSE]]
                    /\ UNCHANGED unitPc
    /\ UNCHANGED <<isRunning, runningMutex, ticker, timerActive, tickPending,
                   cycleLog, callerPc, lastReturn, tickFired, stopSignals,
                   calledEarly, earlyCall, earlyReturn, dataVars>>
    /\ UNCHANGED callVars
    /\ UNCHANGED handlerVars
    /\ UNCHANGED delivered

\* a dedup check that never skips
SendMessagesCheckNoSkip(u, ok) ==
    /\ cyc[u].pc = "check"
    /\ LET m == Current(u)
           r == IsMessageCached(m, ok)
           c == [cyc[u] EXCEPT !.checks = @ + 1]
       IN cyc' = [cyc EXCEPT ![u] =
              IF r.err THEN NextMessage(Failed(c, "check_err"))
              ELSE IF r.cached
              THEN [Failed(c, "cached") EXCEPT !.pc = "send"]
              ELSE [c EXCEPT !.pc = "send", !.last = "uncached"]]
    /\ UNCHANGED <<schedAll, dataVars>>
    /\ UNCHANGED callVars
    /\ UNCHANGED handlerVars
    /\ UNCHANGED delivered

\* cached, err := s.IsMessageCached(message.ID): on an error, and when the
\* entry exists, the loop continues with the next message
SendMessagesCheck(u, ok) ==
    /\ cyc[u].pc = "check"
    /\ LET m == Current(u)
           r == IsMessageCached(m, ok)
           c == [cyc[u] EXCEPT !.checks = @ + 1]
       IN cyc' = [cyc EXCEPT ![u] =
              IF r.err THEN NextMessage(Failed(c, "check_err"))
              ELSE IF r.cached THEN NextMessage(Failed(c, "cached"))
              ELSE [c EXCEPT !.pc = "send", !.last = "uncached"]]
    /\ UNCHANGED <<schedAll, dataVars>>
    /\ UNCHANGED callVars
    /\ UNCHANGED handlerVars
    /\ UNCHANGED delivered

\* a delivery that is tried again at once when it is rate limited
SendMessagesDeliverRetries(u, outcome) ==
    /\ cyc[u].pc = "send"
    /\ LET c == [cyc[u] EXCEPT !.sends = @ + 1]
       IN cyc' = [cyc EXCEPT ![u] =
              IF SendMessage(outcome) = "nil"
              THEN [c EXCEPT !.pc = "update", !.last = "delivered"]
              ELSE IF SendMessage(outcome) = "rate_limited" /\ c.sends < 3
              THEN [Failed(c, "send_err") EXCEPT !.pc = "send"]
              ELSE NextMessage(Failed(c, "send_err"))]
    /\ UNCHANGED <<schedAll, dataVars>>
    /\ UNCHANGED callVars
    /\ UNCHANGED handlerVars
    /\ UNCHANGED delivered

\* a delivery whose failure is not looked at: the mark-sent call follows
SendMessagesDeliverMarksAnyway(u, outcome) ==
    /\ cyc[u].pc = "send"
    /\ LET c == [cyc[u] EXCEPT !.sends = @ + 1]
       IN cyc' = [cyc EXCEPT ![u] =
              IF SendMessage(outcome) = "nil"
              THEN [c EXCEPT !.pc = "update", !.last = "delivered"]
              ELSE [Failed(c, "send_err") EXCEPT !.pc = "update"]]
    /\ UNCHANGED <<schedAll, dataVars>>
    /\ UNCHANGED callVars
    /\ UNCHANGED handlerVars
    /\ UNCHANGED delivered

\* a delivery failure that ends the loop
SendMessagesDeliverAbort(u, outcome) ==
    /\ cyc[u].pc = "send"
    /\ LET c == [cyc[u] EXCEPT !.sends = @ + 1]
       IN cyc' = [cyc EXCEPT ![u] =
              IF SendMessage(outcome) = "nil"
              THEN [c EXCEPT !.pc = "update", !.last = "delivered"]
              ELSE AfterLoop(Failed(c, "send_err"))]
    /\ UNCHANGED <<schedAll, dataVars>>
    /\ UNCHANGED callVars
    /\ UNCHANGED handlerVars
    /\ UNCHANGED delivered

\* err = s.SendMessage(message): on an error the loop continues with the
\* next message
SendMessagesDeliverStep(u, outcome) ==
    /\ cyc[u].pc = "send"
    /\ LET c == [cyc[u] EXCEPT !.sends = @ + 1]
       IN cyc' = [cyc EXCEPT ![u] =
              IF SendMessage(outcome) = "nil"
              THEN [c EXCEPT !.pc = "update", !.last = "delivered"]
              ELSE NextMessage(Failed(c, "send_err"))]
    /\ UNCHANGED <<schedAll, dataVars>>
    /\ UNCHANGED callVars
    /\ UNCHANGED handlerVars

\* the delivery step of the loop
SendMessagesDeliver(u, outcome) ==
    /\ SendMessagesDeliverStep(u, outcome)
    /\ UNCHANGED delivered

\* the same step with the successful deliveries counted
SendMessagesDeliverCounted(u, outcome) ==
    /\ SendMessagesDeliverStep(u, outcome)
    /\ delivered' = IF SendMessage(outcome) = "nil"
                    THEN [delivered EXCEPT ![Current(u)] =
                             Min(@ + 1, MaxDelivered)]
                    ELSE delivered

\* a mark-sent whose error is ignored: the cache entry is written anyway
SendMessagesMarkErrorIgnored(u, ok) ==
    /\ cyc[u].pc = "update"
    /\ LET m == Current(u)
           c == [cyc[u] EXCEPT !.marks = @ + 1]
       IN /\ UpdateMessageSent(m, ok)
          /\ cyc' = [cyc EXCEPT ![u] =
                IF ok
                THEN [c EXCEPT !.messagesSent = TRUE, !.pc = "cache",
                               !.last = "marked"]
                ELSE [Failed(c, "mark_err") EXCEPT !.pc = "cache"]]
    /\ UNCHANGED <<schedAll, stored, redisClient, cacheMsg, snapshot, req,
                   reqCount, cacheFailed>>
    /\ UNCHANGED callVars
    /\ UNCHANGED handlerVars
    /\ UNCHANGED delivered

\* err := s.messageService.UpdateMessageSent(ctx, message.ID): on an error
\* the loop continues; otherwise messagesSent = true
SendMessagesMark(u, ok) ==
    /\ cyc[u].pc = "update"
    /\ LET m == Current(u)
           c == [cyc[u] EXCEPT !.marks = @ + 1]
       IN /\ UpdateMessageSent(m, ok)
          /\ cyc' = [cyc EXCEPT ![u] =
                IF ok
                THEN [c EXCEPT !.messagesSent = TRUE, !.pc = "cache",
                               !.last = "marked"]
                ELSE NextMessage(Failed(c, "mark_err"))]
    /\ UNCHANGED <<schedAll, stored, redisClient, cacheMsg, snapshot, req,
                   reqCount, cacheFailed>>
    /\ UNCHANGED callVars
    /\ UNCHANGED handlerVars
    /\ UNCHANGED delivered

\* a cache write that does nothing and reports nothing
SendMessagesCacheNoWrite(u, ok) ==
    /\ cyc[u].pc = "cache"
    /\ cyc' = [cyc EXCEPT ![u] = NextMessage([cyc[u] EXCEPT !.last = "cache_written"])]
    /\ UNCHANGED <<schedAll, dataVars>>
    /\ UNCHANGED callVars
    /\ UNCHANGED handlerVars
    /\ UNCHANGED delivered

\* a cache write whose failure ends the loop
SendMessagesCacheErrorAborts(u, ok) ==
    /\ cyc[u].pc = "cache"
    /\ LET m == Current(u)
           done == redisClient = "set" /\ ok
           c == IF done
                THEN [cyc[u] EXCEPT !.written = @ + 1, !.last = "cache_written"]
                ELSE Failed(cyc[u], IF redisClient = "set" THEN "cache_err"
                                    ELSE "cache_skipped")
       IN /\ cacheMsg' = IF done THEN cacheMsg \cup {m} ELSE cacheMsg
          /\ cacheFailed' = IF done THEN cacheFailed ELSE cacheFailed \cup {m}
          /\ cyc' = [cyc EXCEPT ![u] = IF done THEN NextMessage(c)
                                       ELSE AfterLoop(c)]
    /\ UNCHANGED <<schedAll, stored, sent, sentAt, redisClient, snapshot,
                   req, reqCount>>
    /\ UNCHANGED callVars
    /\ UNCHANGED handlerVars
    /\ UNCHANGED delivered

\* if s.redisClient != nil { Set("message:<id>", timestamp, 24h) } else warn;
\* a failed Set is only warned about
SendMessagesCache(u, ok) ==
    /\ cyc[u].pc = "cache"
    /\ LET m == Current(u)
           done == redisClient = "set" /\ ok
           c == IF done
                THEN [cyc[u] EXCEPT !.written = @ + 1, !.last = "cache_written"]
                ELSE Failed(cyc[u], IF redisClient = "set" THEN "cache_err"
                                    ELSE "cache_skipped")
       IN /\ cacheMsg' = IF done THEN cacheMsg \cup {m} ELSE cacheMsg
          /\ cacheFailed' = IF done THEN cacheFailed ELSE cacheFailed \cup {m}
          /\ cyc' = [cyc EXCEPT ![u] = NextMessage(c)]
    /\ UNCHANGED <<schedAll, stored, sent, sentAt, redisClient, snapshot,
                   req, reqCount>>
    /\ UNCHANGED callVars
    /\ UNCHANGED handlerVars
    /\ UNCHANGED delivered

\* sentMessages, err := s.messageService.GetSentMessages(ctx): on an error
\* the refresh is given up
SendMessagesRefreshGet(u, ok) ==
    /\ cyc[u].pc = "refresh_get"
    /\ cyc' = [cyc EXCEPT ![u] =
          IF ok THEN [@ EXCEPT !.read = GetSentMessages, !.pc = "refresh_set",
                               !.last = "refresh_read"]
          ELSE [Failed(@, "refresh_get_err") EXCEPT !.pc = "return"]]
    /\ UNCHANGED <<schedAll, dataVars>>
    /\ UNCHANGED callVars
    /\ UNCHANGED handlerVars
    /\ UNCHANGED delivered

\* Set("messages:sent", json, 10m); a failed Set is only warned about
SendMessagesRefreshSet(u, ok) ==
    /\ cyc[u].pc = "refresh_set"
    /\ snapshot' = IF ok THEN [present |-> TRUE, ids |-> cyc[u].read]
                   ELSE snapshot
    /\ cyc' = [cyc EXCEPT ![u] =
          IF ok THEN [@ EXCEPT !.refreshes = @ + 1, !.read = {},
                               !.pc = "return", !.last = "refreshed"]
          ELSE [Failed(@, "refresh_set_err") EXCEPT !.read = {},
                                                    !.pc = "return"]]
    /\ UNCHANGED <<schedAll, stored, sent, sentAt, redisClient, cacheMsg,
                   req, reqCount, cacheFailed>>
    /\ UNCHANGED callVars
    /\ UNCHANGED handlerVars
    /\ UNCHANGED delivered

\* return nil after the loop and the refresh; the goroutine re-enters the
\* select
SendMessagesReturn(u) ==
    /\ InCycle(u)
    /\ cyc[u].pc = "return"
    /\ unitPc' = [unitPc EXCEPT ![u] = "select"]
    /\ cyc' = [cyc EXCEPT ![u] = IdleCycle]
    /\ UNCHANGED <<isRunning, runningMutex, ticker, timerActive, tickPending,
                   cycleLog, callerPc, lastReturn, tickFired, stopSignals,
                   calledEarly, earlyCall, earlyReturn, dataVars>>
    /\ UNCHANGED callVars
    /\ UNCHANGED handlerVars
    /\ UNCHANGED delivered

\* ------------------------------------------------------------------------
\* Request handlers that share the store and the cache with the cycle
\* ------------------------------------------------------------------------

\* the store's GetMessage(id) finds the row with that id
GetMessage(m) == m \in stored

\* the store's CreateMessage(message) inserts the row it is given: the
\* handler passes Sent: false and no SentAt
CreateMessage(m) == stored' = stored \cup {m}

\* c.JSON(status, ...) followed by the handler's return
Reply(r, status) ==
    [r EXCEPT !.pc = "reply", !.reply = status, !.id = 0, !.read = {},
              !.keys = {}]

\* MessageHandler.SendMessage, up to the delivery: GetMessage, and
\* CreateMessage when the lookup fails; a failed create is answered with 500
ManualLookup(m, how) ==
    /\ req.pc = "idle"
    /\ reqCount < MaxRequests
    /\ reqCount' = reqCount + 1
    /\ how \in {"found", "created", "create_failed"}
    /\ how = "found" => GetMessage(m)
    /\ how = "created" => ~GetMessage(m)
    /\ IF how = "created" THEN CreateMessage(m) ELSE UNCHANGED stored
    /\ req' = IF how = "create_failed"
              THEN Reply([IdleReq EXCEPT !.id = m], StatusInternalServerError)
              ELSE [IdleReq EXCEPT !.pc = "m_send", !.id = m]
    /\ UNCHANGED <<schedAll, cyc, sent, sentAt, redisClient,
                   cacheMsg, snapshot, cacheFailed>>
    /\ UNCHANGED callVars
    /\ UNCHANGED handlerVars
    /\ UNCHANGED delivered

\* a handler that goes on to the mark-sent call whatever SendMessage returns
ManualDeliverIgnoresError(outcome) ==
    /\ req.pc = "m_send"
    /\ req' = [req EXCEPT !.pc = "m_update", !.sendErr = SendMessage(outcome)]
    /\ UNCHANGED <<schedAll, cyc, stored, sent, sentAt, redisClient,
                   cacheMsg, snapshot, reqCount, cacheFailed>>
    /\ UNCHANGED callVars
    /\ UNCHANGED handlerVars
    /\ UNCHANGED delivered

\* err = h.messageSender.SendMessage(message): an error is answered with 500
ManualDeliver(outcome) ==
    /\ req.pc = "m_send"
    /\ req' = IF SendMessage(outcome) = "nil"
              THEN [req EXCEPT !.pc = "m_update", !.sendErr = "nil"]
              ELSE Reply([req EXCEPT !.sendErr = SendMessage(outcome)],
                         StatusInternalServerError)
    /\ UNCHANGED <<schedAll, cyc, stored, sent, sentAt, redisClient,
                   cacheMsg, snapshot, reqCount, cacheFailed>>
    /\ UNCHANGED callVars
    /\ UNCHANGED handlerVars
    /\ UNCHANGED delivered

\* h.messageService.UpdateMessageSent(ctx, message.ID): an error is answered
\* with 500; without a cache client the request is answered with 202 right
\* away
ManualMark(ok) ==
    /\ req.pc = "m_update"
    /\ UpdateMessageSent(req.id, ok)
    /\ LET r == [req EXCEPT !.marks = @ + 1]
       IN req' = IF ~ok THEN Reply(r, StatusInternalServerError)
                 ELSE IF redisClient = "set" THEN [r EXCEPT !.pc = "m_get"]
                 ELSE Reply(r, StatusAccepted)
    /\ UNCHANGED <<schedAll, cyc, stored, redisClient, cacheMsg,
                   snapshot, reqCount, cacheFailed>>
    /\ UNCHANGED callVars
    /\ UNCHANGED handlerVars
    /\ UNCHANGED delivered

\* messages, err := h.messageService.GetSentMessages(ctx)
ManualRefreshGet(ok) ==
    /\ req.pc = "m_get"
    /\ req' = IF ok THEN [req EXCEPT !.pc = "m_set", !.read = GetSentMessages]
              ELSE [req EXCEPT !.pc = "m_del"]
    /\ UNCHANGED <<schedAll, cyc, stored, sent, sentAt, redisClient,
                   cacheMsg, snapshot, reqCount, cacheFailed>>
    /\ UNCHANGED callVars
    /\ UNCHANGED handlerVars
    /\ UNCHANGED delivered

\* Set("messages:sent", json or "[]", 10m)
ManualRefreshSet(ok) ==
    /\ req.pc = "m_set"
    /\ snapshot' = IF ok THEN [present |-> TRUE, ids |-> req.read]
                   ELSE snapshot
    /\ req' = [req EXCEPT !.pc = "m_del", !.read = {}]
    /\ UNCHANGED <<schedAll, cyc, stored, sent, sentAt, redisClient,
                   cacheMsg, reqCount, cacheFailed>>
    /\ UNCHANGED callVars
    /\ UNCHANGED handlerVars
    /\ UNCHANGED delivered

\* h.redisClient.Del("message:<id>"), then the 202 answer
ManualDel(ok) ==
    /\ req.pc = "m_del"
    /\ cacheMsg' = IF ok THEN cacheMsg \ {req.id} ELSE cacheMsg
    /\ req' = Reply(req, StatusAccepted)
    /\ UNCHANGED <<schedAll, cyc, stored, sent, sentAt, redisClient,
                   snapshot, reqCount, cacheFailed>>
    /\ UNCHANGED callVars
    /\ UNCHANGED handlerVars
    /\ UNCHANGED delivered

\* the names of the cache keys, character by character: "message:" followed
\* by the id in decimal, "messages:sent" and "scheduler:state"
MessageKeyPrefix == <<"m", "e", "s", "s", "a", "g", "e", ":">>
MessageKey(m) == MessageKeyPrefix \o <<ToString(m)>>
SentMessagesKey ==
    <<"m", "e", "s", "s", "a", "g", "e", "s", ":", "s", "e", "n", "t">>
SchedulerStateKey ==
    <<"s", "c", "h", "e", "d", "u", "l", "e", "r", ":", "s", "t", "a", "t", "e">>

\* the keys the cache holds
ExistingKeys ==
    {MessageKey(m) : m \in cacheMsg}
        \cup (IF snapshot.present THEN {SentMessagesKey} ELSE {})
        \cup (IF schedulerState # "absent" THEN {SchedulerStateKey} ELSE {})

\* a KEYS that answers with every key of the cache
KeysAnyName(prefix) == ExistingKeys

\* KEYS <prefix>*: the existing keys whose name starts with the prefix
Keys(prefix) ==
    {k \in ExistingKeys :
        Len(k) >= Len(prefix) /\ SubSeq(k, 1, Len(prefix)) = prefix}

\* messageSender.ClearMessageCache, up to the Del: no client -> nil;
\* Keys("message:*") fails -> error; no keys -> nil.  The handler answers
\* nil with 200 and an error with 500
ClearKeys(ok) ==
    /\ req.pc = "idle"
    /\ reqCount < MaxRequests
    /\ reqCount' = reqCount + 1
    /\ req' = IF redisClient = "nil" THEN Reply(IdleReq, StatusOK)
              ELSE IF ~ok THEN Reply(IdleReq, StatusInternalServerError)
              ELSE IF Keys(MessageKeyPrefix) = {} THEN Reply(IdleReq, StatusOK)
              ELSE [IdleReq EXCEPT !.pc = "c_del",
                                   !.keys = Keys(MessageKeyPrefix)]
    /\ UNCHANGED <<schedAll, cyc, stored, sent, sentAt, redisClient,
                   cacheMsg, snapshot, cacheFailed>>
    /\ UNCHANGED callVars
    /\ UNCHANGED handlerVars
    /\ UNCHANGED delivered

\* s.redisClient.Del(keys...): every key named is removed, whatever it
\* holds; then the handler's answer
ClearDel(ok) ==
    /\ req.pc = "c_del"
    /\ cacheMsg' = IF ok THEN {m \in cacheMsg : MessageKey(m) \notin req.keys}
                   ELSE cacheMsg
    /\ snapshot' = IF ok /\ SentMessagesKey \in req.keys
                   THEN [present |-> FALSE, ids |-> {}] ELSE snapshot
    /\ schedulerState' = IF ok /\ SchedulerStateKey \in req.keys
                         THEN "absent" ELSE schedulerState
    /\ req' = Reply(IdleReq, IF ok THEN StatusOK
                             ELSE StatusInternalServerError)
    /\ UNCHANGED <<schedAll, cyc, stored, sent, sentAt, redisClient,
                   reqCount, cacheFailed, hreq>>
    /\ UNCHANGED callVars
    /\ UNCHANGED delivered

\* the handler returns: the request is over
Respond ==
    /\ req.pc = "reply"
    /\ req' = IdleReq
    /\ UNCHANGED <<schedAll, cyc, stored, sent, sentAt, redisClient,
                   cacheMsg, snapshot, reqCount, cacheFailed>>
    /\ UNCHANGED callVars
    /\ UNCHANGED handlerVars
    /\ UNCHANGED delivered

\* ------------------------------------------------------------------------
\* The background goroutine launched by Start
\* ------------------------------------------------------------------------

\* the goroutine calls s.sender.SendMessages(s.batchSize) right away
FirstBatch(u) ==
    /\ unitPc[u] = "spawned"
    /\ unitPc' = [unitPc EXCEPT ![u] = "first_cycle"]
    /\ cycleLog' = [cycleLog EXCEPT ![u] = Append(@, "immediate")]
    /\ cyc' = [cyc EXCEPT ![u] = NewCycle(u)]
    /\ UNCHANGED <<isRunning, runningMutex, ticker, timerActive, tickPending,
                   callerPc, lastReturn, tickFired, stopSignals, calledEarly,
                   earlyCall, earlyReturn, dataVars>>
    /\ UNCHANGED callVars
    /\ UNCHANGED handlerVars
    /\ UNCHANGED delivered

\* case <-s.ticker.C: the buffered tick is taken and SendMessages is called
SelectTick(u) ==
    /\ unitPc[u] = "select"
    /\ tickPending
    /\ tickPending' = FALSE
    /\ unitPc' = [unitPc EXCEPT ![u] = "tick_cycle"]
    /\ cycleLog' = [cycleLog EXCEPT ![u] =
          IF Len(@) < MaxCycles THEN Append(@, "tick") ELSE @]
    /\ cyc' = [cyc EXCEPT ![u] = NewCycle(u)]
    /\ UNCHANGED <<isRunning, runningMutex, ticker, timerActive, callerPc,
                   lastReturn, tickFired, stopSignals, calledEarly, earlyCall,
                   earlyReturn, dataVars>>
    /\ UNCHANGED callVars
    /\ UNCHANGED handlerVars
    /\ UNCHANGED delivered

\* the stop branch without its return: the goroutine goes back to the select
SelectStopNoReturn(u, t) ==
    /\ unitPc[u] = "stopping"
    /\ t \in {u, ticker}
    /\ timerActive' = timerActive \ {t}
    /\ unitPc' = [unitPc EXCEPT ![u] = "select"]
    /\ UNCHANGED <<isRunning, runningMutex, ticker, tickPending, cycleLog,
                   callerPc, lastReturn, tickFired, stopSignals, calledEarly,
                   earlyCall, earlyReturn>>
    /\ UNCHANGED senderVars
    /\ UNCHANGED callVars
    /\ UNCHANGED handlerVars
    /\ UNCHANGED delivered

\* case <-s.stopChan: s.ticker.Stop(); return.  s.ticker is read without the
\* lock, concurrently with the write in a later Start: the read yields the
\* ticker of the goroutine's own period or the one s.ticker holds now.
\* The goroutine is gone, and with it what its last call returned.
SelectStop(u, t) ==
    /\ unitPc[u] = "stopping"
    /\ t \in {u, ticker}
    /\ timerActive' = timerActive \ {t}
    /\ unitPc' = [unitPc EXCEPT ![u] = "done"]
    /\ cyc' = [cyc EXCEPT ![u] = IdleCycle]
    /\ UNCHANGED <<isRunning, runningMutex, ticker, tickPending, cycleLog,
                   callerPc, lastReturn, tickFired, stopSignals, calledEarly,
                   earlyCall, earlyReturn, dataVars>>
    /\ UNCHANGED callVars
    /\ UNCHANGED handlerVars
    /\ UNCHANGED delivered

\* the runtime delivers a tick of the active ticker s.ticker into its channel
\* (a tick that finds the buffer full is dropped).  Ticks of an active ticker
\* that s.ticker no longer points to land in a channel no goroutine reads.
TickFire(t) ==
    /\ t \in timerActive
    /\ t = ticker
    /\ tickPending' = TRUE
    /\ tickFired' = TRUE
    /\ UNCHANGED <<isRunning, runningMutex, ticker, timerActive, unitPc,
                   cycleLog, callerPc, lastReturn, stopSignals, calledEarly,
                   earlyCall, earlyReturn>>
    /\ UNCHANGED senderVars
    /\ UNCHANGED callVars
    /\ UNCHANGED handlerVars
    /\ UNCHANGED delivered

Next ==
    \/ \E c \in Callers : StartLock(c)
    \/ \E c \in Callers : Start(c)
    \/ \E c \in Callers : StopLock(c)
    \/ \E c \in Callers : StopCheck(c)
    \/ \E c \in Callers, u \in Periods : StopSignal(c, u)
    \/ \E c \in Callers : StopFinish(c)
    \/ \E c \in Callers : IsRunningLock(c)
    \/ \E c \in Callers : IsRunning(c)
    \/ \E u \in Periods : FirstBatch(u)
    \/ \E u \in Periods, ok \in BOOLEAN : SendMessagesFetch(u, ok)
    \/ \E u \in Periods : SelectTick(u)
    \/ \E u \in Periods, t \in Periods : SelectStop(u, t)
    \/ \E t \in Periods : TickFire(t)

Spec == Init /\ [][Next]_vars

\* what a row and its cache key can look like when the service comes up:
\* 0 no row, 1 unsent, 2 unsent with a cache key, 3 sent with a cache key
\* (without a cache client: 0 no row, 1 unsent, 3 sent).  Ids are
\* interchangeable, so one content per permutation class is enough.
Contents(r) ==
    {st \in [Msgs -> 0..3] :
        /\ \A m, n \in Msgs : m < n => st[m] <= st[n]
        /\ r = "nil" => \A m \in Msgs : st[m] # 2}

\* the service after the first Start() has returned nil and its handler has
\* written the key scheduler:state, over any content of the table and of
\* the cache, with or without a cache client
SenderInit ==
    /\ isRunning = TRUE
    /\ runningMutex = 0
    /\ ticker = 1
    /\ timerActive = {1}
    /\ tickPending = FALSE
    /\ tickFired = FALSE
    /\ unitPc = [u \in Periods |-> IF u = 1 THEN "spawned" ELSE "none"]
    /\ cycleLog = [u \in Periods |-> <<>>]
    /\ callerPc = [c \in Callers |-> "idle"]
    /\ lastReturn = Return("Start", "nil", 82)
    /\ stopSignals = 0
    /\ calledEarly = FALSE
    /\ earlyCall = {}
    /\ earlyReturn = {}
    /\ cyc = [u \in Periods |-> IdleCycle]
    /\ req = IdleReq
    /\ reqCount = 0
    /\ cacheFailed = {}
    /\ delivery = NoDelivery
    /\ markCall = NoMarkCall
    /\ hreq = [c \in Callers |-> "none"]
    /\ delivered = [m \in Msgs |-> 0]
    /\ snapshot = [present |-> FALSE, ids |-> {}]
    /\ \E r \in {"nil", "set"} : \E st \in Contents(r) :
          /\ redisClient = r
          /\ schedulerState = IF r = "nil" THEN "absent" ELSE "running"
          /\ stored = {m \in Msgs : st[m] > 0}
          /\ sent = {m \in Msgs : st[m] = 3}
          /\ sentAt = [m \in Msgs |-> IF st[m] = 3 THEN 1 ELSE 0]
          /\ cacheMsg = IF r = "nil" THEN {} ELSE {m \in Msgs : st[m] >= 2}

\* the goroutine of the running period, the runtime's ticker and the
\* request handlers
SenderNext ==
    \/ \E u \in Periods : FirstBatch(u)
    \/ \E u \in Periods, ok \in BOOLEAN : SendMessagesFetch(u, ok)
    \/ \E u \in Periods, ok \in BOOLEAN : SendMessagesCheck(u, ok)
    \/ \E u \in Periods, o \in DeliveryOutcomes : SendMessagesDeliver(u, o)
    \/ \E u \in Periods, ok \in BOOLEAN : SendMessagesMark(u, ok)
    \/ \E u \in Periods, ok \in BOOLEAN : SendMessagesCache(u, ok)
    \/ \E u \in Periods, ok \in BOOLEAN : SendMessagesRefreshGet(u, ok)
    \/ \E u \in Periods, ok \in BOOLEAN : SendMessagesRefreshSet(u, ok)
    \/ \E u \in Periods : SendMessagesReturn(u)
    \/ \E u \in Periods : SelectTick(u)
    \/ \E t \in Periods : TickFire(t)

SenderSpec == SenderInit /\ [][SenderNext]_vars

\* the goroutine keeps running (the Go scheduler runs a runnable goroutine)
\* and an active ticker keeps delivering ticks; what the store, the cache
\* and the delivery endpoint answer is left open
RetryFairness ==
    /\ \A u \in Periods :
          /\ WF_vars(FirstBatch(u))
          /\ WF_vars(\E ok \in BOOLEAN : SendMessagesFetch(u, ok))
          /\ WF_vars(\E ok \in BOOLEAN : SendMessagesCheck(u, ok))
          /\ WF_vars(\E o \in DeliveryOutcomes : SendMessagesDeliver(u, o))
          /\ WF_vars(\E ok \in BOOLEAN : SendMessagesMark(u, ok))
          /\ WF_vars(\E ok \in BOOLEAN : SendMessagesCache(u, ok))
          /\ WF_vars(\E ok \in BOOLEAN : SendMessagesRefreshGet(u, ok))
          /\ WF_vars(\E ok \in BOOLEAN : SendMessagesRefreshSet(u, ok))
          /\ WF_vars(SendMessagesReturn(u))
          /\ WF_vars(SelectTick(u))
    /\ \A t \in Periods : WF_vars(TickFire(t))

\* the running goroutine for ever
RetrySpec == SenderInit /\ [][SenderNext]_vars /\ RetryFairness

\* the service after the first Start(), with the cache holding keys of sent
\* messages only: what the cycles of earlier runs leave behind
ConsistentInit == SenderInit /\ cacheMsg \subseteq sent

\* the immediate cycle and manual send requests
ManualNext ==
    \/ \E u \in Periods : FirstBatch(u)
    \/ \E u \in Periods, ok \in BOOLEAN : SendMessagesFetch(u, ok)
    \/ \E u \in Periods, ok \in BOOLEAN : SendMessagesCheck(u, ok)
    \/ \E u \in Periods, o \in DeliveryOutcomes : SendMessagesDeliver(u, o)
    \/ \E u \in Periods, ok \in BOOLEAN : SendMessagesMark(u, ok)
    \/ \E u \in Periods, ok \in BOOLEAN : SendMessagesCache(u, ok)
    \/ \E u \in Periods, ok \in BOOLEAN : SendMessagesRefreshGet(u, ok)
    \/ \E u \in Periods, ok \in BOOLEAN : SendMessagesRefreshSet(u, ok)
    \/ \E u \in Periods : SendMessagesReturn(u)
    \/ \E m \in Msgs, how \in {"found", "created", "create_failed"} :
          ManualLookup(m, how)
    \/ \E o \in DeliveryOutcomes : ManualDeliver(o)
    \/ \E ok \in BOOLEAN : ManualMark(ok)
    \/ \E ok \in BOOLEAN : ManualRefreshGet(ok)
    \/ \E ok \in BOOLEAN : ManualRefreshSet(ok)
    \/ \E ok \in BOOLEAN : ManualDel(ok)
    \/ Respond

ManualSpec == ConsistentInit /\ [][ManualNext]_vars

\* the immediate cycle and cache-clear requests
ClearNext ==
    \/ \E u \in Periods : FirstBatch(u)
    \/ \E u \in Periods, ok \in BOOLEAN : SendMessagesFetch(u, ok)
    \/ \E u \in Periods, ok \in BOOLEAN : SendMessagesCheck(u, ok)
    \/ \E u \in Periods, o \in DeliveryOutcomes : SendMessagesDeliver(u, o)
    \/ \E u \in Periods, ok \in BOOLEAN : SendMessagesMark(u, ok)
    \/ \E u \in Periods, ok \in BOOLEAN : SendMessagesCache(u, ok)
    \/ \E u \in Periods, ok \in BOOLEAN : SendMessagesRefreshGet(u, ok)
    \/ \E u \in Periods, ok \in BOOLEAN : SendMessagesRefreshSet(u, ok)
    \/ \E u \in Periods : SendMessagesReturn(u)
    \/ \E ok \in BOOLEAN : ClearKeys(ok)
    \/ \E ok \in BOOLEAN : ClearDel(ok)
    \/ Respond

ClearSpec == SenderInit /\ [][ClearNext]_vars

\* SendMessage called on its own: it returns what the answer of its outbound
\* call makes it return
SendMessageReturn ==
    /\ delivery.err = "none"
    /\ delivery' = [delivery EXCEPT !.err = SendMessage(delivery.resp)]
    /\ UNCHANGED <<schedAll, senderVars, markCall>>
    /\ UNCHANGED handlerVars
    /\ UNCHANGED delivered

\* a call of SendMessage for every answer the outbound call can get
DeliverInit ==
    /\ SchedulerInit
    /\ stored = {}
    /\ sent = {}
    /\ sentAt = [m \in Msgs |-> 0]
    /\ redisClient = "set"
    /\ cacheMsg = {}
    /\ snapshot = [present |-> FALSE, ids |-> {}]
    /\ markCall = NoMarkCall
    /\ \E r \in Responses : delivery = [resp |-> r, err |-> "none"]

DeliverNext == SendMessageReturn

DeliverSpec == DeliverInit /\ [][DeliverNext]_vars

\* UpdateMessageSent called on its own, for any id
UpdateMessageSentCall(m, ok) ==
    /\ UpdateMessageSent(m, ok)
    /\ markCall' = [id |-> m, err |-> UpdateMessageSentErr(m, ok)]
    /\ UNCHANGED <<schedAll, cyc, stored, redisClient, cacheMsg, snapshot,
                   req, reqCount, cacheFailed, delivery>>
    /\ UNCHANGED handlerVars
    /\ UNCHANGED delivered

StoreNext == \E m \in Msgs, ok \in BOOLEAN : UpdateMessageSentCall(m, ok)

\* the store on its own, over any content of the table
StoreSpec == SenderInit /\ [][StoreNext]_vars

\* ------------------------------------------------------------------------
\* MessageHandler.StartScheduler and MessageHandler.StopScheduler
\* ------------------------------------------------------------------------

\* a request for StartScheduler arrives and its h.scheduler.Start() gets the
\* lock (the caller is busy until its handler has returned)
StartSchedulerLock(c) ==
    /\ hreq[c] = "none"
    /\ StartLock(c)

\* h.scheduler.Start() returns to the handler: an error is answered with 500,
\* otherwise the handler goes on to write the key scheduler:state
StartSchedulerCall(c) ==
    /\ StartStep(c)
    /\ hreq' = [hreq EXCEPT ![c] = IF lastReturn'.val = "nil" THEN "set"
                                   ELSE "none"]
    /\ UNCHANGED schedulerState

\* if h.redisClient != nil { Set("scheduler:state", "running", 0) }; a failed
\* Set is only warned about; then the 200 answer
StartSchedulerSet(c, ok) ==
    /\ hreq[c] = "set"
    /\ schedulerState' = IF redisClient = "set" /\ ok THEN "running"
                         ELSE schedulerState
    /\ hreq' = [hreq EXCEPT ![c] = "none"]
    /\ UNCHANGED <<schedAll, senderVars, callVars, delivered>>

\* a request for StopScheduler arrives and its h.scheduler.Stop() gets the
\* lock
StopSchedulerLock(c) ==
    /\ hreq[c] = "none"
    /\ StopLock(c)

\* h.scheduler.Stop() finds the scheduler not running and returns nil to
\* the handler, or goes on to its send
StopSchedulerCheck(c) ==
    /\ StopCheckStep(c)
    /\ hreq' = [hreq EXCEPT ![c] = IF callerPc'[c] = "idle" THEN "del"
                                   ELSE "none"]
    /\ UNCHANGED schedulerState

\* h.scheduler.Stop() returns nil to the handler after its send
StopSchedulerCall(c) ==
    /\ StopFinishStep(c)
    /\ hreq' = [hreq EXCEPT ![c] = "del"]
    /\ UNCHANGED schedulerState

\* if h.redisClient != nil { Del("scheduler:state") }; a failed Del is only
\* warned about; then the 200 answer
StopSchedulerDel(c, ok) ==
    /\ hreq[c] = "del"
    /\ schedulerState' = IF redisClient = "set" /\ ok THEN "absent"
                         ELSE schedulerState
    /\ hreq' = [hreq EXCEPT ![c] = "none"]
    /\ UNCHANGED <<schedAll, senderVars, callVars, delivered>>

\* the scheduler handlers serving requests concurrently while no tick
\* arrives and every cache call succeeds
HandlerNext ==
    \/ \E c \in Callers : StartSchedulerLock(c)
    \/ \E c \in Callers : StartSchedulerCall(c)
    \/ \E c \in Callers : StartSchedulerSet(c, TRUE)
    \/ \E c \in Callers : StopSchedulerLock(c)
    \/ \E c \in Callers : StopSchedulerCheck(c)
    \/ \E c \in Callers, u \in Periods : StopSignal(c, u)
    \/ \E c \in Callers : StopSchedulerCall(c)
    \/ \E c \in Callers : StopSchedulerDel(c, TRUE)
    \/ \E u \in Periods : FirstBatch(u)
    \/ \E u \in Periods, ok \in BOOLEAN : SendMessagesFetch(u, ok)
    \/ \E u \in Periods, t \in Periods : SelectStop(u, t)

HandlerSpec == Init /\ [][HandlerNext]_vars

\* the scheduler and its callers while no tick arrives
LiveNext ==
    \/ \E c \in Callers : StartLock(c)
    \/ \E c \in Callers : Start(c)
    \/ \E c \in Callers : StopLock(c)
    \/ \E c \in Callers : StopCheck(c)
    \/ \E c \in Callers, u \in Periods : StopSignal(c, u)
    \/ \E c \in Callers : StopFinish(c)
    \/ \E c \in Callers : IsRunningLock(c)
    \/ \E c \in Callers : IsRunning(c)
    \/ \E u \in Periods : FirstBatch(u)
    \/ \E u \in Periods, ok \in BOOLEAN : SendMessagesFetch(u, ok)
    \/ \E u \in Periods, t \in Periods : SelectStop(u, t)

\* a goroutine that can take a step takes it: a caller that holds the lock
\* goes on to its return, a send on stopChan is received by the goroutine
\* waiting in the select, the background goroutine goes on to its select
\* and from its stop branch to its return, and the delivery cycle it calls
\* terminates.  Nothing makes a caller call.
CallFairness ==
    /\ \A c \in Callers :
          /\ WF_vars(Start(c))
          /\ WF_vars(StopCheck(c))
          /\ WF_vars(\E u \in Periods : StopSignal(c, u))
          /\ WF_vars(StopFinish(c))
          /\ WF_vars(IsRunning(c))
    /\ \A u \in Periods :
          /\ WF_vars(FirstBatch(u))
          /\ WF_vars(\E ok \in BOOLEAN : SendMessagesFetch(u, ok))
          /\ WF_vars(\E t \in Periods : SelectStop(u, t))

\* the scheduler and its callers, every goroutine running for ever, within
\* the first interval of every running period
LiveSpec == Init /\ [][LiveNext]_vars /\ CallFairness

\* the goroutine of the running period cycle after cycle, with its
\* successful deliveries counted, while no mark-sent call fails
CountNext ==
    \/ \E u \in Periods : FirstBatch(u)
    \/ \E u \in Periods, ok \in BOOLEAN : SendMessagesFetch(u, ok)
    \/ \E u \in Periods, ok \in BOOLEAN : SendMessagesCheck(u, ok)
    \/ \E u \in Periods, o \in DeliveryOutcomes :
          SendMessagesDeliverCounted(u, o)
    \/ \E u \in Periods : SendMessagesMark(u, TRUE)
    \/ \E u \in Periods, ok \in BOOLEAN : SendMessagesCache(u, ok)
    \/ \E u \in Periods, ok \in BOOLEAN : SendMessagesRefreshGet(u, ok)
    \/ \E u \in Periods, ok \in BOOLEAN : SendMessagesRefreshSet(u, ok)
    \/ \E u \in Periods : SendMessagesReturn(u)
    \/ \E u \in Periods : SelectTick(u)
    \/ \E t \in Periods : TickFire(t)

CountSpec == SenderInit /\ [][CountNext]_vars

\* ========================================================================
\* Properties
\* ========================================================================

\* a running period is open: the flag is set and no Stop has delivered its
\* signal yet
PeriodOpen == isRunning /\ \A c \in Callers : callerPc[c] # "stop_sent"

\* C1 (as stated): a Start() that finds the scheduler already running
\* returns nil.
C1_StartWhileRunningReturnsNil ==
    [][\A c \in Callers :
          (callerPc[c] = "start_body" /\ isRunning /\ callerPc'[c] = "idle")
              => (lastReturn'.op = "Start" /\ lastReturn'.val = "nil")]_vars

\* C1 (amended): a Start() that finds the scheduler already running returns
\* a non-nil error and leaves the flag, the ticker, the timers and the
\* background goroutines as they were.
C1_StartWhileRunningReturnsError ==
    [][\A c \in Callers :
          (callerPc[c] = "start_body" /\ isRunning /\ callerPc'[c] # "start_body")
              => /\ lastReturn'.op = "Start" /\ lastReturn'.val = "err"
                 /\ callerPc'[c] = "idle"
                 /\ UNCHANGED <<isRunning, ticker, timerActive, unitPc, cycleLog>>]_vars

\* a Start() has just returned the already-running error
C1_Witness ==
    /\ lastReturn = Return("Start", "err", 45)
    /\ isRunning
    /\ runningMutex = 0

\* C2: after Start() calls with no Stop() having taken effect, exactly one
\* timer is active, exactly one background goroutine exists and the running
\* flag is true, which is what IsRunning() returns.
C2_StartsLeaveOneTimerOneUnit ==
    /\ [](ticker >= 1 /\ stopSignals = 0 =>
             /\ isRunning
             /\ ticker = 1
             /\ timerActive = {1}
             /\ ExistingUnits = {1})
    /\ [][\A c \in Callers :
             (callerPc[c] = "isr_body" /\ ticker >= 1 /\ stopSignals = 0
                 /\ callerPc'[c] = "idle")
                 => lastReturn' = Return("IsRunning", "true", 101)]_vars

\* a second Start() has returned, no stop signal has been sent, and the
\* goroutine of the first Start() has already run cycles
C2_Witness ==
    /\ stopSignals = 0
    /\ lastReturn.op = "Start" /\ lastReturn.line = 45
    /\ runningMutex = 0
    /\ Len(cycleLog[1]) >= 2

\* C3: a Stop() that finds the scheduler not running returns nil, sends no
\* stop signal and leaves the flag false; so of two Stop() calls in a row
\* only one signals, every Stop() returns nil, and one stop signal is sent
\* per running period.
C3_StopWhenNotRunning ==
    /\ [][\A c \in Callers :
             (callerPc[c] = "stop_body" /\ ~isRunning /\ callerPc'[c] # "stop_body")
                 => /\ lastReturn'.op = "Stop" /\ lastReturn'.val = "nil"
                    /\ callerPc'[c] = "idle"
                    /\ runningMutex' = 0
                    /\ stopSignals' = stopSignals
                    /\ ~isRunning']_vars
    /\ [](lastReturn.op = "Stop" => lastReturn.val = "nil")
    /\ [](stopSignals = ticker - (IF PeriodOpen THEN 1 ELSE 0))

\* a Stop() has returned from the not-running branch after the one running
\* period was stopped by an earlier Stop()
C3_Witness ==
    /\ ticker = 1
    /\ stopSignals = 1
    /\ ~isRunning
    /\ lastReturn = Return("Stop", "nil", 90)

\* C4: a Stop() that has decided to signal is never held up by a delivery
\* cycle in flight: its send can complete while the cycle is executing.
C4_StopDoesNotWaitForCycle ==
    \A c \in Callers :
        (callerPc[c] = "stop_send" /\ CycleInFlight)
            => ENABLED (\E u \in Periods : StopSignal(c, u))

\* C5: while a delivery cycle is running, the state lock is not held by a
\* caller that is waiting for the background goroutine.
C5_LockNotHeldAcrossCycle ==
    CycleInFlight =>
        (runningMutex = 0 \/ callerPc[runningMutex] # "stop_send")

\* C6: at most one scheduler-invoked SendMessages call is executing.
C6_AtMostOneCycle ==
    Cardinality({u \in Periods : InCycle(u)}) <= 1

\* a cycle of a restarted scheduler overruns the interval while the
\* goroutine of the previous period has not finished stopping
C6_Witness ==
    \E u \in Periods : /\ u > 1
                       /\ InCycle(u)
                       /\ tickPending
                       /\ unitPc[u - 1] = "stopping"

\* C7: the goroutine of every running period calls SendMessages once right
\* away, before any tick-driven call.
C7_ImmediateCycleFirst ==
    \A u \in Periods :
        /\ u <= ticker => unitPc[u] # "none"
        /\ unitPc[u] # "none" =>
              \/ unitPc[u] = "spawned" /\ cycleLog[u] = <<>>
              \/ /\ Len(cycleLog[u]) >= 1
                 /\ cycleLog[u][1] = "immediate"
                 /\ \A i \in 2..Len(cycleLog[u]) : cycleLog[u][i] = "tick"

\* a restarted scheduler has run its immediate cycle and a tick-driven one
C7_Witness ==
    \E u \in Periods : u > 1 /\ cycleLog[u] = <<"immediate", "tick">>

\* C8 (as stated): a period whose Stop() was called before its first tick
\* fired runs at most one cycle.
C8_StopCalledBeforeFirstTick ==
    \A p \in earlyCall : Len(cycleLog[p]) <= 1

\* C8 (amended): a period whose Stop() was called and returned before its
\* first tick fired runs exactly the immediate cycle, and no second one.
C8_StopReturnedBeforeFirstTick ==
    \A p \in earlyReturn : cycleLog[p] = <<"immediate">> /\ ~InCycle(p)

\* the ticker of an early-stopped period fires after Stop() returned
C8_Witness ==
    \E p \in earlyReturn : p = ticker /\ ~isRunning /\ tickFired

\* C9: a goroutine that has observed the stop signal and returned has
\* cancelled the timer of its period, and while the flag is false no
\* goroutine is left that could start a cycle.
C9_StopCancelsTimerAndCycles ==
    /\ \A u \in Periods : unitPc[u] = "done" => u \notin timerActive
    /\ ~isRunning => LiveUnits = {}

\* C10: whenever the scheduler is running (also after earlier Start/Stop
\* pairs) the goroutine of the current period is alive and its timer is
\* active, so ticks keep arriving and cycles keep being invoked.
C10_RunningSchedulerKeepsTicking ==
    PeriodOpen => (ticker \in timerActive /\ ticker \in LiveUnits)

\* the step of goroutine u in which its SendMessages call returns the fetch
\* error (the only error SendMessages returns)
CycleFails(u) ==
    cyc[u].pc = "fetch" /\ cyc'[u].pc = "idle" /\ cyc'[u].fetchErr

\* C11: an error returned by a delivery cycle changes nothing of what
\* Start() and Stop() return, leaves the running flag and every timer as
\* they are and sends the goroutine back to its select, where a pending
\* tick of a scheduler that runs on starts the next cycle.
C11_CycleErrorLeavesSchedulerRunning ==
    /\ [][\A u \in Periods :
             CycleFails(u)
                 => /\ unitPc'[u] = "select"
                    /\ UNCHANGED <<isRunning, ticker, timerActive, tickPending,
                                   lastReturn, callerPc, runningMutex>>]_vars
    /\ [](\A u \in Periods :
             (unitPc[u] = "select" /\ cyc[u].fetchErr /\ tickPending
                 /\ Len(cycleLog[u]) < MaxCycles)
                 => ENABLED SelectTick(u))

\* a tick has started the next cycle of a running scheduler whose previous
\* cycle returned an error
C11_Witness ==
    \E u \in Periods : /\ unitPc[u] = "tick_cycle"
                       /\ cyc[u].pc = "fetch"
                       /\ cyc[u].fetchErr
                       /\ isRunning
                       /\ u = ticker
                       /\ u \in timerActive

\* goroutine u takes a step of its SendMessages call at position p
CycleStep(u, p) == cyc[u].pc = p /\ cyc'[u] # cyc[u]

\* C12 (as stated): a message whose key message:<id> exists when the cycle
\* starts is not passed to the Delivery Client and not marked sent during
\* that cycle.
C12_CachedAtCycleStartNotDelivered ==
    [][\A u \in Periods :
          (CycleStep(u, "send") \/ CycleStep(u, "update"))
              => Current(u) \notin cyc[u].cache0]_vars

\* C12 (amended): a message whose key message:<id> exists when the cycle
\* makes its dedup check for it is skipped: no delivery attempt, no
\* mark-sent, the store and the cache unchanged, and the loop goes on to
\* the next message; a message whose key is absent at a check that does not
\* fail goes to the Delivery Client; and only such messages do.
C12_CachedAtCheckSkipped ==
    /\ [][\A u \in Periods :
             CycleStep(u, "check") =>
                 /\ (redisClient = "set" /\ Current(u) \in cacheMsg) =>
                       /\ cyc'[u].pc \notin {"send", "update", "cache"}
                       /\ cyc'[u].sends = cyc[u].sends
                       /\ cyc'[u].marks = cyc[u].marks
                       /\ cyc[u].i < Len(cyc[u].batch) =>
                             (cyc'[u].pc = "check" /\ cyc'[u].i = cyc[u].i + 1)
                       /\ UNCHANGED <<stored, sent, sentAt, cacheMsg>>
                 /\ (Current(u) \notin cacheMsg /\ cyc'[u].last # "check_err") =>
                       (cyc'[u].pc = "send" /\ cyc'[u].i = cyc[u].i)]_vars
    /\ [](\A u \in Periods : cyc[u].pc = "send" => cyc[u].last = "uncached")

\* in a batch of two the first message was found cached and skipped, it is
\* still unsent, and the second one has been delivered
C12_Witness ==
    \E u \in Periods : /\ Len(cyc[u].batch) = 2
                       /\ cyc[u].i = 2
                       /\ cyc[u].pc = "update"
                       /\ cyc[u].checks = 2
                       /\ cyc[u].sends = 1
                       /\ cyc[u].batch[1] \in cacheMsg
                       /\ cyc[u].batch[1] \in cyc[u].cache0
                       /\ cyc[u].batch[1] \notin sent

\* C13: the cycle writes the key message:<id> only in the step that follows
\* a mark-sent call for that id that returned nil, in the same call of
\* SendMessages; a failed delivery or a failed mark-sent moves on to the
\* next message with the cache as it was.
C13_CacheOnlyAfterMarkSent ==
    /\ [][\A u \in Periods :
             /\ (cyc'[u].written > cyc[u].written) =>
                   /\ CycleStep(u, "cache")
                   /\ cyc[u].last = "marked"
                   /\ Current(u) \in sent
                   /\ cacheMsg' = cacheMsg \cup {Current(u)}
             /\ (CycleStep(u, "send") \/ CycleStep(u, "update")) =>
                   /\ UNCHANGED cacheMsg
                   /\ cyc'[u].last \in {"send_err", "mark_err"} =>
                         /\ cyc'[u].pc # "cache"
                         /\ cyc'[u].written = cyc[u].written
                         /\ cyc[u].i < Len(cyc[u].batch) =>
                               cyc'[u].i = cyc[u].i + 1]_vars
    /\ [][cacheMsg' \subseteq cacheMsg
             \/ \E u \in Periods : cyc'[u].written = cyc[u].written + 1]_vars
    /\ [](\A u \in Periods : cyc[u].pc = "cache" => cyc[u].last = "marked")

\* of a batch of two, the message whose mark-sent failed has no cache key
\* and the one whose mark-sent returned nil has just got one
C13_Witness ==
    \E u \in Periods : /\ Len(cyc[u].batch) = 2
                       /\ cyc[u].last = "cache_written"
                       /\ cyc[u].marks = 2
                       /\ cyc[u].written = 1
                       /\ cyc[u].batch[1] \notin cacheMsg
                       /\ cyc[u].batch[2] \in cacheMsg
                       /\ cyc[u].batch[2] \in sent

\* the per-message cache write for m was skipped or failed in the cycle
\* that marked m sent, or no cache is configured
CacheUnavailableFor(m) == redisClient = "nil" \/ m \in cacheFailed

\* a cycle has marked m sent and is about to write its cache key
CacheWritePending(m) ==
    \E u \in Periods : cyc[u].pc = "cache" /\ Current(u) = m

\* C14 (as stated): every message with sent = true has its key
\* message:<id> in the cache, unless the cache was unavailable or failed in
\* the cycle that sent it (the cycle's own write still pending aside).
C14_SentImpliesCached ==
    \A m \in sent :
        m \in cacheMsg \/ CacheUnavailableFor(m) \/ CacheWritePending(m)

\* C14 (amended): when a scheduler cycle has marked a message sent, its
\* next step leaves the key message:<id> in the cache unless no cache is
\* configured or the write fails.
C14_CycleCachesWhatItMarks ==
    [][\A u \in Periods :
          CycleStep(u, "cache") =>
              /\ Current(u) \in sent
              /\ \/ Current(u) \in cacheMsg'
                 \/ Current(u) \in cacheFailed'
                 \/ redisClient = "nil"]_vars

\* a cycle has marked its first message sent and has just written its key,
\* after a handler request was served
C14_Witness ==
    \E u \in Periods : /\ cyc[u].last = "cache_written"
                       /\ cyc[u].marks = 1
                       /\ cyc[u].written = 1
                       /\ cyc[u].batch[1] \in sent
                       /\ cyc[u].batch[1] \in cacheMsg
                       /\ reqCount = 1

\* C15: for every message sent = true exactly when sent_at is set, and every
\* step that changes one of the two for a message sets both.
C15_SentIffSentAt ==
    /\ [](\A m \in Msgs : m \in sent <=> sentAt[m] > 0)
    /\ [][\A m \in Msgs :
             /\ (m \in sent') # (m \in sent) => sentAt'[m] # sentAt[m]
             /\ sentAt'[m] # sentAt[m] => (m \in sent' /\ sentAt'[m] > 0)
             /\ (m \in stored' /\ m \notin stored) =>
                   (m \notin sent' /\ sentAt'[m] = 0)]_vars

\* the manual send handler has just marked a message sent, a cycle has made
\* a mark-sent call too, and another row is still unsent
C15_Witness ==
    /\ req.pc = "m_get"
    /\ req.id \in sent
    /\ sentAt[req.id] = 1
    /\ \E u \in Periods : cyc[u].marks >= 1
    /\ \E n \in stored : n \notin sent /\ sentAt[n] = 0

\* C16: the fetch of a cycle returns at most BatchSize rows, distinct and
\* all with sent = false, and a cycle makes at most BatchSize dedup checks,
\* at most BatchSize delivery attempts and at most BatchSize mark-sent calls.
C16_BatchBound ==
    /\ [](\A u \in Periods :
             /\ Len(cyc[u].batch) <= BatchSize
             /\ cyc[u].checks <= BatchSize
             /\ cyc[u].sends <= BatchSize
             /\ cyc[u].marks <= BatchSize)
    /\ [][\A u \in Periods :
             (CycleStep(u, "fetch") /\ cyc'[u].pc = "check") =>
                 /\ \A k \in 1..Len(cyc'[u].batch) :
                       cyc'[u].batch[k] \in stored \ sent
                 /\ \A k, l \in 1..Len(cyc'[u].batch) :
                       k # l => cyc'[u].batch[k] # cyc'[u].batch[l]]_vars

\* a cycle has checked, delivered and marked BatchSize messages while
\* another unsent row was left out of its batch
C16_Witness ==
    \E u \in Periods :
        /\ Len(cyc[u].batch) = BatchSize
        /\ cyc[u].checks = BatchSize
        /\ cyc[u].sends = BatchSize
        /\ cyc[u].marks = BatchSize
        /\ \E m \in stored \ sent :
              \A k \in 1..Len(cyc[u].batch) : cyc[u].batch[k] # m

\* C17: a failed delivery (rate limit, other status, transport or decode
\* failure) leaves the store and the cache as they are, makes no mark-sent
\* call and no cache write for the message, and the loop goes on with the
\* next message; a call that has fetched a batch checks every message of it
\* and returns nil.
C17_DeliveryFailureContinues ==
    /\ [][\A u \in Periods :
             (CycleStep(u, "send") /\ cyc'[u].last = "send_err") =>
                 /\ UNCHANGED <<stored, sent, sentAt, cacheMsg, snapshot>>
                 /\ cyc'[u].marks = cyc[u].marks
                 /\ cyc'[u].written = cyc[u].written
                 /\ IF cyc[u].i < Len(cyc[u].batch)
                    THEN cyc'[u].pc = "check" /\ cyc'[u].i = cyc[u].i + 1
                    ELSE cyc'[u].pc \in {"refresh_get", "return"}]_vars
    /\ [][\A u \in Periods :
             CycleStep(u, "send") =>
                 (cyc'[u].last = "send_err" \/ cyc'[u].pc = "update")]_vars
    /\ [][\A u \in Periods :
             CycleStep(u, "return") =>
                 /\ cyc[u].checks = Len(cyc[u].batch)
                 /\ cyc'[u].pc = "idle" /\ ~cyc'[u].fetchErr
                 /\ unitPc'[u] = "select"]_vars

\* the delivery of the first message of a batch of two failed: it is unsent
\* and has no cache key, and the second one has been delivered and marked
C17_Witness ==
    \E u \in Periods : /\ Len(cyc[u].batch) = 2
                       /\ cyc[u].i = 2
                       /\ cyc[u].pc = "cache"
                       /\ cyc[u].sends = 2
                       /\ cyc[u].marks = 1
                       /\ cyc[u].batch[1] \notin sent
                       /\ cyc[u].batch[1] \notin cacheMsg
                       /\ cyc[u].batch[2] \in sent

\* C18: a call that has fetched k messages, found none of them cached and
\* had every delivery, mark-sent and cache call succeed has made k
\* mark-sent calls, written k new message:<id> keys and refreshed the
\* snapshot messages:sent exactly once, with every sent message in it.
C18_CleanCycleCounts ==
    \A u \in Periods :
        (cyc[u].pc = "return" /\ cyc[u].clean) =>
            /\ cyc[u].sends = Len(cyc[u].batch)
            /\ cyc[u].marks = Len(cyc[u].batch)
            /\ cyc[u].written = Len(cyc[u].batch)
            /\ cyc[u].refreshes = 1
            /\ \A k \in 1..Len(cyc[u].batch) :
                  /\ cyc[u].batch[k] \in sent
                  /\ cyc[u].batch[k] \in cacheMsg
                  /\ cyc[u].batch[k] \notin cyc[u].cache0
            /\ snapshot = [present |-> TRUE, ids |-> sent]

\* such a call with a full batch is about to return
C18_Witness ==
    \E u \in Periods : /\ cyc[u].pc = "return"
                       /\ cyc[u].clean
                       /\ Len(cyc[u].batch) = BatchSize
                       /\ cyc[u].refreshes = 1
                       /\ cyc[u].written = BatchSize

\* C19: when the fetch fails the call returns the error having made no
\* delivery attempt, no store write and no cache write; the goroutine goes
\* back to its select with the running flag and the timers unchanged, and a
\* pending tick starts the next cycle.
C19_FetchFailureAbortsOnlyTheCycle ==
    /\ [][\A u \in Periods :
             CycleFails(u) =>
                 /\ cyc[u].checks = 0 /\ cyc[u].sends = 0 /\ cyc[u].marks = 0
                 /\ cyc[u].written = 0 /\ cyc[u].refreshes = 0
                 /\ UNCHANGED <<stored, sent, sentAt, cacheMsg, snapshot,
                                cacheFailed>>
                 /\ UNCHANGED <<isRunning, ticker, timerActive>>
                 /\ unitPc'[u] = "select"]_vars
    /\ [](\A u \in Periods :
             cyc[u].fetchErr => cyc[u].pc \in {"idle", "fetch"})
    /\ [](\A u \in Periods :
             (cyc[u].pc = "idle" /\ cyc[u].fetchErr) =>
                 /\ unitPc[u] = "select"
                 /\ u \in timerActive
                 /\ (tickPending /\ Len(cycleLog[u]) < MaxCycles)
                        => ENABLED SelectTick(u))

\* after a failed fetch that left unsent rows behind, a tick has started
\* the next cycle
C19_Witness ==
    \E u \in Periods : /\ unitPc[u] = "tick_cycle"
                       /\ cyc[u].pc = "fetch"
                       /\ cyc[u].fetchErr
                       /\ stored \ sent # {}
                       /\ u \in timerActive

\* C20: when the dedup check of a message fails, the cycle goes on as if
\* the cache were empty: the message is passed to the Delivery Client.
C20_CheckErrorStillDelivers ==
    [][\A u \in Periods :
          (CycleStep(u, "check") /\ cyc'[u].last = "check_err") =>
              (cyc'[u].pc = "send" /\ cyc'[u].i = cyc[u].i)]_vars

\* C21: the store's delivery state does not depend on the cache.  A
\* delivery that returned nil is followed by the mark-sent call whether or
\* not a cache client is configured; when the per-message cache write is
\* skipped or fails the message stays sent and the loop goes on with the
\* next message; when the snapshot refresh fails the store is left as it is;
\* and the call returns nil.
C21_CacheFailureKeepsStoreState ==
    /\ [][\A u \in Periods :
             /\ (CycleStep(u, "send") /\ cyc'[u].last = "delivered") =>
                   cyc'[u].pc = "update"
             /\ (CycleStep(u, "update") /\ cyc'[u].last = "marked") =>
                   Current(u) \in sent'
             /\ (CycleStep(u, "cache")
                   /\ cyc'[u].last \in {"cache_err", "cache_skipped"}) =>
                   /\ Current(u) \in sent'
                   /\ UNCHANGED <<stored, sent, sentAt>>
                   /\ IF cyc[u].i < Len(cyc[u].batch)
                      THEN cyc'[u].pc = "check" /\ cyc'[u].i = cyc[u].i + 1
                      ELSE cyc'[u].pc \in {"refresh_get", "return"}
             /\ (cyc[u].pc \in {"refresh_get", "refresh_set"}
                   /\ cyc'[u].last \in {"refresh_get_err", "refresh_set_err"}
                   /\ cyc'[u] # cyc[u]) =>
                   /\ UNCHANGED <<stored, sent, sentAt>>
                   /\ cyc'[u].pc = "return"
             /\ (CycleStep(u, "return")
                   /\ cyc[u].last \in {"cache_err", "cache_skipped",
                                       "refresh_get_err", "refresh_set_err"}) =>
                   /\ cyc'[u].pc = "idle" /\ ~cyc'[u].fetchErr
                   /\ unitPc'[u] = "select"]_vars
    /\ [](\A u \in Periods :
             /\ cyc[u].pc = "cache" => Current(u) \in sent
             /\ redisClient = "nil" =>
                   cyc[u].pc \notin {"refresh_get", "refresh_set"})

\* a cycle over two messages whose cache writes both failed and whose
\* snapshot refresh failed too is about to return, with both messages sent
C21_Witness ==
    \E u \in Periods : /\ cyc[u].pc = "return"
                       /\ cyc[u].last = "refresh_set_err"
                       /\ Len(cyc[u].batch) = 2
                       /\ cyc[u].marks = 2
                       /\ cyc[u].written = 0
                       /\ cyc[u].batch[1] \in sent \ cacheMsg
                       /\ cyc[u].batch[2] \in sent \ cacheMsg

\* C22: SendMessage returns nil for an answer with status 200 or 202 and a
\* body that decodes, the rate-limit error for an answer with status 429,
\* and a generic delivery error for any other status, for a transport
\* failure and for a body that does not decode.
C22_DeliveryClassification ==
    delivery.err # "none" =>
        LET r == delivery.resp
            accepted == r.transport = "ok" /\ r.status \in {200, 202}
            limited == r.transport = "ok" /\ r.status = 429
        IN /\ (accepted /\ r.decodable) => delivery.err = "nil"
           /\ limited => delivery.err = "rate_limited"
           /\ (~limited /\ ~(accepted /\ r.decodable)) => delivery.err = "error"

\* SendMessage has returned the rate-limit error for a 429 answer whose body
\* does not decode
C22_Witness ==
    /\ delivery.err = "rate_limited"
    /\ delivery.resp.status = 429
    /\ ~delivery.resp.decodable

\* the delivery of m has just failed in a cycle, which went on to its next
\* message or left its loop
DeliveryJustFailed(m) ==
    \E u \in Periods :
        /\ cyc[u].last = "send_err"
        /\ \/ cyc[u].pc = "check" /\ cyc[u].batch[cyc[u].i - 1] = m
           \/ cyc[u].pc \in {"refresh_get", "return"}
                 /\ cyc[u].batch[cyc[u].i] = m

\* a cycle has fetched m and is passing it to the Delivery Client
PassedToDelivery(m) ==
    \E u \in Periods : cyc[u].pc = "send" /\ Current(u) = m

\* the last fetch of a goroutine failed
FetchFailed == \E u \in Periods : cyc[u].fetchErr

\* C23: while the scheduler runs and its fetches succeed, a message whose
\* delivery failed is later fetched again and passed to the Delivery Client.
C23_FailedDeliveryRetried ==
    \A m \in Msgs :
        DeliveryJustFailed(m) ~> (PassedToDelivery(m) \/ FetchFailed)

\* C24: when SendMessage returns an error to the manual send handler, the
\* handler answers 500 in the same step, with the store, the per-message
\* keys and the snapshot as they were; it has made no mark-sent call and
\* makes none, since all that is left of the request is its return.
C24_ManualDeliveryFailure ==
    /\ [][(req.pc = "m_send" /\ req' # req /\ req'.sendErr # "nil") =>
             /\ req'.sendErr \in {"rate_limited", "error"}
             /\ req'.pc = "reply"
             /\ req'.reply = StatusInternalServerError
             /\ req.marks = 0 /\ req'.marks = 0
             /\ UNCHANGED <<stored, sent, sentAt, cacheMsg, snapshot>>]_vars
    /\ [][(req.pc = "reply" /\ req' # req) =>
             /\ req'.pc = "idle"
             /\ UNCHANGED <<stored, sent, sentAt, cacheMsg, snapshot>>]_vars
    /\ [](req.pc = "m_update" => req.sendErr = "nil")
    /\ [][req'.marks > req.marks => req.pc = "m_update"]_vars

\* the handler is about to answer 500 for a request whose delivery was rate
\* limited and that made no mark-sent call, with an unsent row in the table
C24_Witness ==
    /\ req.pc = "reply"
    /\ req.sendErr = "rate_limited"
    /\ req.reply = StatusInternalServerError
    /\ req.marks = 0
    /\ stored \ sent # {}

\* C25: a call of SendMessages overwrites the snapshot messages:sent at most
\* once, after its loop is over, and only when it has marked a message sent;
\* a call whose fetch is empty, or that marks no message sent, writes
\* neither the snapshot nor a per-message key nor the store, and returns nil.
C25_SnapshotRefreshOnlyAfterMark ==
    /\ [](\A u \in Periods :
             /\ cyc[u].refreshes <= 1
             /\ cyc[u].refreshes = 1 => cyc[u].pc = "return"
             /\ cyc[u].pc \in {"refresh_get", "refresh_set"} =>
                   /\ cyc[u].messagesSent
                   /\ cyc[u].checks = Len(cyc[u].batch)
                   /\ \E k \in 1..Len(cyc[u].batch) : cyc[u].batch[k] \in sent
             /\ ~cyc[u].messagesSent =>
                   cyc[u].written = 0 /\ cyc[u].refreshes = 0)
    /\ [][snapshot' # snapshot =>
             \E u \in Periods : /\ CycleStep(u, "refresh_set")
                                /\ cyc'[u].refreshes = 1
                                /\ cyc'[u].pc = "return"]_vars
    /\ [][\A u \in Periods :
             (cyc'[u] # cyc[u] /\ ~cyc'[u].messagesSent) =>
                 UNCHANGED <<stored, sent, sentAt, cacheMsg, snapshot>>]_vars
    /\ [][\A u \in Periods :
             (CycleStep(u, "fetch") /\ cyc'[u].pc = "idle") =>
                 /\ UNCHANGED <<stored, sent, sentAt, cacheMsg, snapshot>>
                 /\ unitPc'[u] = "select"]_vars
    /\ [][\A u \in Periods :
             (CycleStep(u, "return") /\ ~cyc[u].messagesSent) =>
                 /\ cyc'[u].pc = "idle" /\ ~cyc'[u].fetchErr
                 /\ unitPc'[u] = "select"]_vars

\* a call over two messages, one of them not passed to the Delivery Client
\* and the other not marked sent, is about to return with a cache client
\* configured and no snapshot written
C25_Witness ==
    \E u \in Periods : /\ cyc[u].pc = "return"
                       /\ ~cyc[u].messagesSent
                       /\ Len(cyc[u].batch) = 2
                       /\ cyc[u].checks = 2
                       /\ cyc[u].sends = 1
                       /\ cyc[u].refreshes = 0
                       /\ redisClient = "set"
                       /\ ~snapshot.present

\* C26: every message that has a key message:<id> in the cache is recorded
\* with sent = true in the store.
C26_CachedImpliesSent == cacheMsg \subseteq sent

\* a cycle has written the key of a message it marked sent while a manual
\* send request is in progress and another row is still unsent
C26_Witness ==
    /\ \E u \in Periods : /\ cyc[u].written >= 1
                          /\ cyc[u].batch[1] \in cacheMsg
                          /\ cyc[u].batch[1] \in sent
                          /\ cyc[u].batch[1] \notin cyc[u].cache0
    /\ req.pc = "m_update"
    /\ stored \ sent # {}

\* C27: when UpdateMessageSent returns nil, the store holds a row with the
\* id it was given and that row has sent = true.
C27_MarkSentNilMeansPersisted ==
    markCall.err = "nil" =>
        (markCall.id \in stored /\ markCall.id \in sent)

\* C28: sent_at of a message is written once, in the step that turns sent
\* from false to true, and no step changes sent_at of a message that is
\* already sent.
C28_SentAtSetOnce ==
    [][\A m \in Msgs :
          /\ (m \notin sent /\ sentAt'[m] # sentAt[m]) => m \in sent'
          /\ m \in sent => sentAt'[m] = sentAt[m]]_vars

\* C29: a message gets sent = true only in a mark-sent step that follows a
\* delivery of that message that returned nil, in the same cycle or the
\* same manual send request; a cycle or request whose delivery was skipped
\* or failed makes no mark-sent call for the message.
C29_SentOnlyAfterDelivery ==
    /\ [][\A m \in Msgs :
             (m \in sent' /\ m \notin sent) =>
                 \/ \E u \in Periods : /\ CycleStep(u, "update")
                                       /\ Current(u) = m
                                       /\ cyc[u].last = "delivered"
                 \/ /\ req.pc = "m_update"
                    /\ req.id = m
                    /\ req.sendErr = "nil"
                    /\ req'.marks = req.marks + 1]_vars
    /\ [](\A u \in Periods :
             cyc[u].pc = "update" => cyc[u].last = "delivered")
    /\ [](req.pc = "m_update" => req.sendErr = "nil")
    /\ [][\A u \in Periods :
             cyc'[u].marks > cyc[u].marks =>
                 (cyc[u].pc = "update" /\ cyc[u].last = "delivered")]_vars
    /\ [][req'.marks > req.marks =>
             (req.pc = "m_update" /\ req.sendErr = "nil")]_vars

\* a cycle has just marked its second message sent after the delivery of
\* its first one failed, and a manual send request has marked a third one
C29_Witness ==
    /\ \E u \in Periods : /\ cyc[u].pc = "cache"
                          /\ cyc[u].i = 2
                          /\ cyc[u].sends = 2
                          /\ cyc[u].marks = 1
                          /\ cyc[u].batch[1] \notin sent
                          /\ cyc[u].batch[2] \in sent
    /\ req.pc = "m_get"
    /\ req.id \in sent

\* C30: a call of SendMessages passes each message of its batch to the
\* Delivery Client at most once.  The rows of a batch have distinct ids, the
\* loop never goes back to a message, and each pass of the loop makes at
\* most one delivery attempt, whose failure moves the loop to the next
\* message.
C30_OneDeliveryPerMessageAndCycle ==
    /\ [](\A u \in Periods :
             /\ \A k, l \in 1..Len(cyc[u].batch) :
                   k # l => cyc[u].batch[k] # cyc[u].batch[l]
             /\ cyc[u].sends <=
                   IF cyc[u].pc \in {"check", "send"}
                   THEN cyc[u].i - 1 ELSE cyc[u].i)
    /\ [][\A u \in Periods :
             /\ (cyc[u].pc # "idle" /\ cyc'[u].pc # "idle") =>
                   /\ cyc'[u].i >= cyc[u].i
                   /\ (cyc[u].pc # "fetch" => cyc'[u].batch = cyc[u].batch)
             /\ cyc'[u].sends # cyc[u].sends =>
                   \/ cyc'[u].pc = "idle"
                   \/ /\ cyc[u].pc = "send"
                      /\ cyc'[u].sends = cyc[u].sends + 1
                      /\ cyc'[u].pc # "send"
             /\ (CycleStep(u, "send") /\ cyc'[u].last = "send_err") =>
                   \/ cyc'[u].i = cyc[u].i + 1
                   \/ cyc'[u].pc \in {"refresh_get", "return"}
             /\ (cyc'[u].pc = "send" /\ cyc[u].pc # "send") =>
                   (cyc[u].pc = "check" /\ cyc'[u].i = cyc[u].i)]_vars

\* a cycle has made a delivery attempt for each of its two messages; the
\* first one was rate limited or failed and is still unsent
C30_Witness ==
    \E u \in Periods : /\ Len(cyc[u].batch) = 2
                       /\ cyc[u].pc = "update"
                       /\ cyc[u].i = 2
                       /\ cyc[u].sends = 2
                       /\ cyc[u].marks = 0
                       /\ cyc[u].batch[1] \notin sent
                       /\ cyc[u].batch[1] \notin cacheMsg

\* C31: ClearMessageCache asks for the keys message:* and gets exactly the
\* per-message keys that exist; without a cache client it answers nil, and
\* without any such key it makes no Del call; a Del that succeeds removes
\* every key it got and nothing else; a Del that fails removes nothing.  No
\* step of it changes the snapshot messages:sent, the key scheduler:state
\* or the table.
C31_ClearRemovesOnlyMessageKeys ==
    [][/\ (req.pc = "idle" /\ req'.pc # "idle") =>
             /\ UNCHANGED <<cacheMsg, snapshot, schedulerState, stored, sent,
                            sentAt>>
             /\ redisClient = "nil" =>
                   req'.pc = "reply" /\ req'.reply = StatusOK
             /\ cacheMsg = {} => req'.pc = "reply"
             /\ req'.pc = "c_del" =>
                   req'.keys = {MessageKey(m) : m \in cacheMsg}
       /\ (req.pc = "c_del" /\ req'.pc # "c_del") =>
             /\ req'.pc = "reply"
             /\ UNCHANGED <<snapshot, schedulerState, stored, sent, sentAt>>
             /\ (req'.pc = "reply" /\ req'.reply = StatusOK) =>
                   cacheMsg' = {m \in cacheMsg : MessageKey(m) \notin req.keys}
             /\ (req'.pc = "reply" /\ req'.reply # StatusOK) =>
                   UNCHANGED cacheMsg]_vars

\* a clear has removed the key that was there before the cycle and the key
\* the cycle wrote, answered 200, and the snapshot the cycle wrote and the
\* key scheduler:state are still there
C31_Witness ==
    /\ req.pc = "reply"
    /\ req.reply = StatusOK
    /\ cacheMsg = {}
    /\ snapshot.present
    /\ schedulerState = "running"
    /\ \E u \in Periods : /\ cyc[u].pc = "return"
                          /\ cyc[u].cache0 # {}
                          /\ cyc[u].written >= 1

\* C32: a key message:<id> that exists is removed by no step other than the
\* Del of a cache clear.
C32_KeyRemovedOnlyByClear ==
    [][\A m \in cacheMsg : m \notin cacheMsg' => req.pc = "c_del"]_vars

\* C33: a ticker is stopped only by the goroutine launched together with
\* it, in the step in which that goroutine takes its stop branch.
C33_TimerStoppedByOwnUnit ==
    [][\A t \in Periods :
          (t \in timerActive /\ t \notin timerActive')
              => (unitPc[t] = "stopping" /\ unitPc'[t] = "done")]_vars

\* C34: whenever the state lock is free or held by IsRunning(), s.isRunning
\* is true exactly when one goroutine exists that has not received a stop
\* signal; there are never two such goroutines.
C34_FlagIffOneLiveUnit ==
    /\ Cardinality(LiveUnits) <= 1
    /\ (runningMutex = 0 \/ callerPc[runningMutex] = "isr_body")
          => (isRunning <=> Cardinality(LiveUnits) = 1)

\* the scheduler was restarted while the goroutine of the stopped period
\* has received its signal and not yet returned: two goroutines exist, one
\* of them has not seen a stop signal, and the lock is free
C34_Witness ==
    /\ runningMutex = 0
    /\ isRunning
    /\ \E u \in Periods : u > 1 /\ u \in LiveUnits /\ unitPc[u - 1] = "stopping"

C37_SentNeverDeliveredAgain ==
    [][/\ \A u \in Periods :
             (cyc[u].pc = "send" /\ cyc'[u] # cyc[u]) => Current(u) \notin sent
       /\ (req.pc = "m_send" /\ req' # req) => req.id \notin sent]_vars

\* C38: a step that overwrites the key messages:sent writes a value that
\* contains every message whose row has sent = true at that moment.
C38_SnapshotWriteIsCurrent ==
    [][snapshot' # snapshot => sent \subseteq snapshot'.ids]_vars

\* no StartScheduler or StopScheduler request is in progress
HandlersIdle ==
    \A c \in Callers : callerPc[c] = "idle" /\ hreq[c] = "none"

\* C39: when every StartScheduler and StopScheduler request has been
\* answered, the key scheduler:state exists with the value running exactly
\* when s.isRunning is true.
C39_StateKeyIffRunning ==
    HandlersIdle => (schedulerState = "running" <=> isRunning)

====
